---- MODULE Spec2Model ----
(***************************************************************************)
(* A model of the sentrix request-admission middleware:                    *)
(*   - LRUCache, the bounded cache of src/security/antiDos.ts;              *)
(*   - antiDoS, the rate-limit gate, on its memory and its Redis branch;    *)
(*   - the CSRF token store, generateCsrfMiddleware and csrfProtection of   *)
(*     src/security/csrf.ts.                                                *)
(* A JavaScript Map is a sequence of entries in insertion order.            *)
(***************************************************************************)
EXTENDS Integers, Sequences, FiniteSets, TLC

VARIABLES
  lru,          \* LRUCache.cache of a stand-alone cache: <<[k, v], ...>>
  lruMax,       \* LRUCache.maxSize of that cache
  lruTouched,   \* history: keys set since construction/clear, by last touch
  lruEvicted,   \* history: keys evicted by set since construction/clear
  lruOps,       \* history: number of calls since construction/clear
  lruDeleted,   \* history: delete was called since construction/clear
  lruScript     \* history: the calls since construction/clear while they
                \* follow one of the Scripts, <<"off">> once they do not

lruVars == <<lru, lruMax, lruTouched, lruEvicted, lruOps, lruDeleted, lruScript>>

VARIABLES
  now,            \* Date.now(), in ms
  advances,       \* history: number of clock advances so far
  redisClient,    \* antiDos.ts redisClient: TRUE when not null
  memoryClients,  \* antiDos.ts memoryClients.cache: <<[k: ip, v: info], ...>>
  lastCleanup,    \* antiDos.ts lastCleanup
  redisDos,       \* the Redis keys dos:<ip>: ip -> [count, expireAt]
  rlHist,         \* history: per ip, the times of its rate-limit checks
                  \* since the start or the last cleanupAntiDoS
  rlReqs,         \* history: number of requests antiDoS has handled
  rlNote,         \* history: per ip, since the start or the last
                  \* cleanupAntiDoS: the gates its counted checks went
                  \* through, and whether its entry was evicted from
                  \* memoryClients
  resp            \* history: what antiDoS did with the last request

rlVars == <<redisClient, memoryClients, lastCleanup, redisDos, rlHist, rlReqs,
           rlNote, resp>>

clockVars == <<now, advances>>

VARIABLES
  csrfRedis,        \* csrf.ts redisClient: TRUE when not null
  cleanupInterval,  \* csrf.ts cleanupInterval: TRUE while the timer is set
  memoryTokens,     \* csrf.ts memoryTokens: session id -> [token, expiresAt]
  redisTokens,      \* the Redis keys csrf:<sessionId>: -> [token, expireAt]
  randomCount,      \* number of tokens crypto.randomBytes has produced
  sessionCount,     \* number of session ids crypto.randomBytes has produced
  issued,           \* history: per session id, the tokens issued for it as
                    \* <<[token, at], ...>>, and whether cleanupCsrf ran since
  cresp             \* history: what the CSRF middleware did with the request
                    \* the latest step handled (kind "none": it handled none)

csrfVars == <<csrfRedis, cleanupInterval, memoryTokens, redisTokens, randomCount,
              sessionCount, issued, cresp>>

VARIABLES
  env,    \* config.env (NODE_ENV)
  reply   \* history: what sentrixErrorHandler answered for the latest
          \* request of the gate (NoReply: it was not called)

appVars == <<env, reply>>

VARIABLES
  hc,     \* a SafeHttpClient: [safeDomains, retries]
  hcall   \* its call in progress or last finished: the url, the phase of
          \* fetchWithRetry, the attempt number, and as history the number
          \* of fetch calls, the backoff waits and the result

httpVars == <<hc, hcall>>

VARIABLES
  conc    \* the requests of the concurrency model, in order of arrival:
          \* <<[ip, gate, phase, at, count, next], ...>>; phase "sent": the
          \* handler awaits multi.exec(); "answered": the store has run the
          \* transaction; "done": the handler has decided

concVars == <<conc>>

VARIABLES
  pipe    \* the array sentrixMiddleware(options) returned, mounted on a
          \* route, and the request passing through it: the index of the
          \* stage to run, the response headers set, and as history the
          \* stages run with the calls each made on next, whether the route
          \* handler ran, the error raised and the status answered

pipeVars == <<pipe>>

vars == <<lruVars, clockVars, rlVars, csrfVars, appVars, httpVars, concVars, pipeVars>>

(***************************************************************************)
(* Bounds of the model.                                                     *)
(***************************************************************************)
MaxCapacity == 2      \* capacities 1..MaxCapacity of the stand-alone cache
MaxOps == 5           \* calls per stand-alone cache between two clear()s
MaxAdvances == 3      \* clock advances in one behaviour
MaxReqs == 3          \* requests antiDoS handles in one behaviour
MemoryMaxSize == 1    \* capacity of memoryClients (10000 in the source)
MaxTokens == 2        \* CSRF tokens issued in one behaviour
MaxSessions == 2      \* CSRF session ids created in one behaviour
MaxOverLimit == 2     \* requests one client sends past the default limit
MaxCalls == 2         \* calls made on one SafeHttpClient
MaxInFlight == 3      \* requests of the concurrency model
MaxPipeReqs == 2      \* requests through one sentrixMiddleware array

(***************************************************************************)
(* Keys and values of the stand-alone cache.  EmptyKey is the empty string, *)
(* the one falsy value of the key type string.                              *)
(***************************************************************************)
EmptyKey == ""
LruKeys == {"A", "B", "C", "D", EmptyKey}
LruVals == {1, 2}

\* JavaScript truthiness of a string key: only "" is falsy.
Truthy(key) == key # ""

(***************************************************************************)
(* Map<K,V>: insertion-ordered.                                             *)
(***************************************************************************)
MapKeys(m) == {m[i].k : i \in DOMAIN m}

MapHas(m, key) == key \in MapKeys(m)

MapIndex(m, key) == CHOOSE i \in DOMAIN m : m[i].k = key

MapGet(m, key) == m[MapIndex(m, key)].v

MapDelete(m, key) == SelectSeq(m, LAMBDA e : e.k # key)

\* Map.set keeps the position of a key that is present, appends a new one.
MapSet(m, key, value) ==
  IF MapHas(m, key)
    THEN [i \in DOMAIN m |-> IF m[i].k = key THEN [k |-> key, v |-> value] ELSE m[i]]
    ELSE Append(m, [k |-> key, v |-> value])

(***************************************************************************)
(* LRUCache.get: the cache after get(key); a hit moves the key to the end.  *)
(***************************************************************************)
\* The values the model stores are never undefined, so `value !== undefined`
\* is `has(key)`.
MutGetNoTouch(cache, key) == cache

LRUCacheGet(cache, key) ==
  IF MapHas(cache, key)
    THEN MapSet(MapDelete(cache, key), key, MapGet(cache, key))
    ELSE cache

(***************************************************************************)
(* LRUCache.set.  LRUCacheVictims is what set(key, _) evicts, as a sequence *)
(* (empty: nothing).  firstKey is keys().next().value, the oldest entry;    *)
(* `if (firstKey)` deletes it only when it is truthy.                       *)
(***************************************************************************)
MutVictimsNewest(cache, maxSize, key) ==
  IF MapHas(cache, key) THEN <<>>
  ELSE IF Len(cache) >= maxSize /\ Len(cache) > 0 /\ Truthy(cache[Len(cache)].k)
    THEN <<cache[Len(cache)].k>>
    ELSE <<>>

LRUCacheVictims(cache, maxSize, key) ==
  IF MapHas(cache, key) THEN <<>>
  ELSE IF Len(cache) >= maxSize /\ Len(cache) > 0 /\ Truthy(cache[1].k)
    THEN <<cache[1].k>>
    ELSE <<>>

MutSetLost(cache, maxSize, key, value) == cache

LRUCacheSet(cache, maxSize, key, value) ==
  LET victims == LRUCacheVictims(cache, maxSize, key)
      afterDelete ==
        IF MapHas(cache, key) THEN MapDelete(cache, key)
        ELSE IF victims # <<>> THEN MapDelete(cache, victims[1])
        ELSE cache
  IN MapSet(afterDelete, key, value)

(***************************************************************************)
(* The stand-alone cache: its operations, with the history the claims read. *)
(***************************************************************************)
Touch(touched, key) == Append(SelectSeq(touched, LAMBDA x : x # key), key)

\* The call sequences of the LRU scenario: keys A, B, C inserted, A touched
\* again (by set or by get), D inserted.
ScriptBySet ==
  << <<"set", "A">>, <<"set", "B">>, <<"set", "C">>, <<"set", "A">>, <<"set", "D">> >>
ScriptByGet ==
  << <<"set", "A">>, <<"set", "B">>, <<"set", "C">>, <<"get", "A">>, <<"set", "D">> >>
ScriptTouch ==
  << <<"set", "A">>, <<"set", "B">>, <<"get", "A">>, <<"set", "B">>, <<"get", "C">> >>
Scripts == {ScriptBySet, ScriptByGet, ScriptTouch}

IsPrefix(s, t) == Len(s) <= Len(t) /\ \A i \in DOMAIN s : s[i] = t[i]

Follow(script, call) ==
  LET next == Append(script, call)
  IN IF script # <<"off">> /\ \E sc \in Scripts : IsPrefix(next, sc)
       THEN next
       ELSE <<"off">>

LruInit(capacities) ==
  /\ lru = <<>>
  /\ lruMax \in capacities
  /\ lruTouched = <<>>
  /\ lruEvicted = <<>>
  /\ lruOps = 0
  /\ lruDeleted = FALSE
  /\ lruScript = <<>>

LruSet(key, value) ==
  /\ lruOps < MaxOps
  /\ lru' = LRUCacheSet(lru, lruMax, key, value)
  /\ lruEvicted' = lruEvicted \o LRUCacheVictims(lru, lruMax, key)
  /\ lruTouched' = Touch(lruTouched, key)
  /\ lruOps' = lruOps + 1
  /\ lruScript' = Follow(lruScript, <<"set", key>>)
  /\ UNCHANGED <<pipeVars, concVars, httpVars, appVars, lruMax, lruDeleted, clockVars, rlVars, csrfVars>>

LruGet(key) ==
  /\ lruOps < MaxOps
  /\ lru' = LRUCacheGet(lru, key)
  /\ lruTouched' = IF MapHas(lru, key) THEN Touch(lruTouched, key) ELSE lruTouched
  /\ lruOps' = lruOps + 1
  /\ lruScript' = Follow(lruScript, <<"get", key>>)
  /\ UNCHANGED <<pipeVars, concVars, httpVars, appVars, lruMax, lruEvicted, lruDeleted, clockVars, rlVars, csrfVars>>

LruDelete(key) ==
  /\ lruOps < MaxOps
  /\ lru' = MapDelete(lru, key)
  /\ lruTouched' = SelectSeq(lruTouched, LAMBDA x : x # key)
  /\ lruOps' = lruOps + 1
  /\ lruScript' = <<"off">>
  /\ lruDeleted' = TRUE
  /\ UNCHANGED <<pipeVars, concVars, httpVars, appVars, lruMax, lruEvicted, clockVars, rlVars, csrfVars>>

LruClear ==
  /\ lru' = <<>>
  /\ lruTouched' = <<>>
  /\ lruEvicted' = <<>>
  /\ lruOps' = 0
  /\ lruDeleted' = FALSE
  /\ lruScript' = <<>>
  /\ UNCHANGED <<pipeVars, concVars, httpVars, appVars, lruMax, clockVars, rlVars, csrfVars>>

(***************************************************************************)
(* Claims about the stand-alone cache.                                      *)
(***************************************************************************)
LastN(seq, n) == {seq[i] : i \in {j \in DOMAIN seq : j > Len(seq) - n}}

\* C1: a cache of capacity N never holds more than N keys, and once more
\* than N distinct keys were inserted by set calls alone it holds exactly
\* the N most recently touched ones, for every key of the key type.
C1_CapacityBound ==
  /\ Cardinality(MapKeys(lru)) <= lruMax
  /\ (~lruDeleted /\ Len(lruTouched) > lruMax)
       => /\ Cardinality(MapKeys(lru)) = lruMax
          /\ MapKeys(lru) = LastN(lruTouched, lruMax)

\* C2 as stated: in a capacity-2 cache, after A, B, C are inserted, A is
\* touched again and D is inserted, the cache holds exactly {A, D} and the
\* keys evicted are B then C.
C2_AsStated ==
  (lruMax = 2 /\ lruScript \in Scripts)
    => /\ MapKeys(lru) = {"A", "D"}
       /\ lruEvicted = <<"B", "C">>

\* C2 amended: in a capacity-2 cache inserting C already evicts A.  When A
\* is then set again and D inserted, the cache holds exactly {A, D} and the
\* keys evicted are A, B, C in that order; when A is touched by get, the
\* get misses and the cache ends as {C, D}, with A then B evicted.
C2_Scenario ==
  lruMax = 2 =>
    /\ lruScript = ScriptBySet
         => MapKeys(lru) = {"A", "D"} /\ lruEvicted = <<"A", "B", "C">>
    /\ lruScript = ScriptByGet
         => MapKeys(lru) = {"C", "D"} /\ lruEvicted = <<"A", "B">>

C2_Witness ==
  lruMax = 2 /\ lruScript = ScriptBySet /\ MapKeys(lru) = {"A", "D"}

(***************************************************************************)
(* The errors of utils/errors.ts, as [name, statusCode]; an error that is   *)
(* no SentriXError is "Error" and the error handler answers it with 500.    *)
(***************************************************************************)
SentriXError == [name |-> "SentriXError", statusCode |-> 500, code |-> "none"]
ValidationError ==
  [name |-> "ValidationError", statusCode |-> 400, code |-> "VALIDATION_ERROR"]
AuthenticationError ==
  [name |-> "AuthenticationError", statusCode |-> 401, code |-> "AUTHENTICATION_ERROR"]
CSRFError == [name |-> "CSRFError", statusCode |-> 403, code |-> "CSRF_ERROR"]
RateLimitError ==
  [name |-> "RateLimitError", statusCode |-> 429, code |-> "RATE_LIMIT_ERROR"]
PayloadTooLargeError ==
  [name |-> "PayloadTooLargeError", statusCode |-> 413, code |-> "PAYLOAD_TOO_LARGE"]
OtherError == [name |-> "Error", statusCode |-> 500, code |-> "none"]
NoError == [name |-> "none", statusCode |-> 200, code |-> "none"]

\* A string is [id, chars, bytes]: which string it is, its JavaScript length
\* and the length of Buffer.from(it).  NoToken: no header, or null.
NoToken == [id |-> 0, chars |-> 0, bytes |-> 0]
NoCookie == 0

\* config.env, and the error handler's call: the error it was given, the
\* error's message and the answer [status, error, code] it sent
Envs == {"development", "production", "test"}
NoReply ==
  [err |-> NoError, message |-> "none",
   answer |-> [status |-> 0, error |-> "none", code |-> "none"]]

\* no Set-Cookie header
NoSetCookie ==
  [name |-> "none", value |-> NoToken, httpOnly |-> FALSE, secure |-> FALSE,
   sameSite |-> "none", maxAge |-> 0]

NoCsrfResponse ==
  [kind |-> "none", method |-> "GET", cookie |-> NoCookie, sessionId |-> NoCookie,
   token |-> NoToken, step |-> "none", lookups |-> 0,
   error |-> NoError, next |-> FALSE, setCookie |-> FALSE,
   cookieSet |-> NoSetCookie, exposed |-> FALSE]

(***************************************************************************)
(* The clock.  Date.now() never goes back; it advances by one of Deltas.    *)
(***************************************************************************)
Deltas == {500}

\* Redis drops a key once its time to live is over.
RedisExpireDos(store, at) ==
  [ip \in DOMAIN store |->
     IF store[ip].count > 0 /\ at >= store[ip].expireAt
       THEN [count |-> 0, expireAt |-> 0]
       ELSE store[ip]]

AdvanceTime(deltas) ==
  /\ advances < MaxAdvances
  /\ \E d \in deltas : now' = now + d
  /\ advances' = advances + 1
  /\ redisDos' = RedisExpireDos(redisDos, now')
  /\ cresp' = NoCsrfResponse
  /\ UNCHANGED <<pipeVars, concVars, httpVars, appVars, lruVars, redisClient, memoryClients, lastCleanup, rlHist, rlReqs, rlNote,
                 resp, csrfRedis, cleanupInterval, memoryTokens, redisTokens,
                 randomCount, sessionCount, issued>>

(***************************************************************************)
(* config.security.rateLimit and the options of antiDoS(options).           *)
(***************************************************************************)
ConfigWindowMs == 3600000
ConfigMaxRequests == 100
ConfigMaxPayloadSize == 1048576
CLEANUP_INTERVAL == 300000

MutOrDefaultOff(option, fallback) == option

\* `option || fallback`: an option that is undefined or 0 takes the default.
\* An absent option is written 0.
OrDefault(option, fallback) == IF option = 0 THEN fallback ELSE option

antiDoSOptions(options) ==
  [maxRequests    |-> OrDefault(options.maxRequests, ConfigMaxRequests),
   windowMs       |-> OrDefault(options.windowMs, ConfigWindowMs),
   maxPayloadSize |-> OrDefault(options.maxPayloadSize, ConfigMaxPayloadSize)]

\* The options the model's gates are built with.
GateOptions ==
  { [maxRequests |-> 1, windowMs |-> 1000, maxPayloadSize |-> 100],
    [maxRequests |-> 2, windowMs |-> 1500, maxPayloadSize |-> 0] }

Gates == {antiDoSOptions(o) : o \in GateOptions}

MutFloorSeconds(windowMs) == windowMs \div 1000

\* Math.ceil(windowMs / 1000)
CeilSeconds(windowMs) == (windowMs + 999) \div 1000

(***************************************************************************)
(* Requests: the client ip extractClientIP returns (NoIp: null or "") and   *)
(* the content-length header (NoHeader: absent).                            *)
(***************************************************************************)
NoIp == "<none>"
Ips == {"ip1", "ip2"}
NoHeader == "<absent>"
ContentLengths == {NoHeader, "100", "101", "abc"}

\* Number(header): NaN is [nan |-> TRUE].
ToNumber(header) ==
  CASE header = "100" -> [nan |-> FALSE, n |-> 100]
    [] header = "101" -> [nan |-> FALSE, n |-> 101]
    [] header = ""    -> [nan |-> FALSE, n |-> 0]
    [] OTHER          -> [nan |-> TRUE,  n |-> 0]

MutPayloadAgainstDefault(contentLength, maxPayloadSize) ==
  /\ contentLength # NoHeader
  /\ contentLength # ""
  /\ ~ToNumber(contentLength).nan
  /\ ToNumber(contentLength).n > ConfigMaxPayloadSize

\* contentLength && Number(contentLength) > maxPayloadSize
PayloadTooLarge(contentLength, maxPayloadSize) ==
  /\ contentLength # NoHeader
  /\ contentLength # ""
  /\ ~ToNumber(contentLength).nan
  /\ ToNumber(contentLength).n > maxPayloadSize

(***************************************************************************)
(* The memory branch: the client's window after one check.                  *)
(***************************************************************************)
NewClient(at) == [attempts |-> <<>>, firstSeen |-> at]

MutFilterKeepsAll(attempts, at, windowMs) == attempts

MutFilterShortWindow(attempts, at, windowMs) ==
  SelectSeq(attempts, LAMBDA timestamp : at - timestamp < windowMs - 500)

MutFilterKeepsEdge(attempts, at, windowMs) ==
  SelectSeq(attempts, LAMBDA timestamp : at - timestamp <= windowMs)

\* client.attempts.filter((timestamp) => now - timestamp < windowMs)
FilterAttempts(attempts, at, windowMs) ==
  SelectSeq(attempts, LAMBDA timestamp : at - timestamp < windowMs)

MutMemoryCheckNoPrune(cache, ip, at, windowMs) ==
  LET client == IF MapHas(cache, ip) THEN MapGet(cache, ip) ELSE NewClient(at)
  IN [client EXCEPT !.attempts = Append(@, at)]

MutMemoryCheckPrepends(cache, ip, at, windowMs) ==
  LET client == IF MapHas(cache, ip) THEN MapGet(cache, ip) ELSE NewClient(at)
  IN [client EXCEPT !.attempts = <<at>> \o FilterAttempts(@, at, windowMs)]

\* get(ip) || new client; filter; push(now)
MemoryCheck(cache, ip, at, windowMs) ==
  LET client == IF MapHas(cache, ip) THEN MapGet(cache, ip) ELSE NewClient(at)
  IN [client EXCEPT !.attempts = Append(FilterAttempts(@, at, windowMs), at)]

MutOverLimitAtLimit(count, maxRequests) == count >= maxRequests

\* over the limit: `count > maxRequests`
OverLimit(count, maxRequests) == count > maxRequests

(***************************************************************************)
(* The Redis branch.  MULTI { INCR key; PEXPIRE key windowMs } is one       *)
(* atomic unit of the store; a key past its expiry does not exist.          *)
(***************************************************************************)
MutRedisLiveNever(entry, at) == FALSE

RedisLive(entry, at) == entry.count > 0 /\ at < entry.expireAt

MutIncrSets(entry, at, windowMs) == [count |-> 1, expireAt |-> at + windowMs]

MutIncrKeepsExpiry(entry, at, windowMs) ==
  [count    |-> (IF RedisLive(entry, at) THEN entry.count ELSE 0) + 1,
   expireAt |-> IF RedisLive(entry, at) THEN entry.expireAt ELSE at + windowMs]

RedisIncrExpire(entry, at, windowMs) ==
  [count    |-> (IF RedisLive(entry, at) THEN entry.count ELSE 0) + 1,
   expireAt |-> at + windowMs]

\* What multi.exec() gives the caller: "ok" the post-increment count,
\* "throws" a rejected promise, "nocount" a result with no count in it.
RedisOutcomes == {"ok", "throws", "nocount"}

(***************************************************************************)
(* antiDoS(options): the middleware handling one request.  The handler runs *)
(* to its end without yielding on the memory branch; on the Redis branch    *)
(* its one await is the transaction, which the store runs atomically.       *)
(***************************************************************************)
MutResponseLiveCount(ip, contentLength, gate, step, backend, error, retryAfter, count, passed) ==
  [ip |-> ip, contentLength |-> contentLength, at |-> now, gate |-> gate,
   step |-> step, backend |-> backend,
   error |-> error, retryAfter |-> retryAfter, count |-> count,
   limitHeader  |-> IF passed THEN count ELSE 0,
   windowHeader |-> IF passed THEN CeilSeconds(gate.windowMs) ELSE 0,
   next |-> passed]

Response(ip, contentLength, gate, step, backend, error, retryAfter, count, passed) ==
  [ip |-> ip, contentLength |-> contentLength, at |-> now, gate |-> gate,
   step |-> step, backend |-> backend,
   error |-> error, retryAfter |-> retryAfter, count |-> count,
   limitHeader  |-> IF passed THEN gate.maxRequests ELSE 0,
   windowHeader |-> IF passed THEN CeilSeconds(gate.windowMs) ELSE 0,
   next |-> passed]

NoResponse ==
  [ip |-> NoIp, contentLength |-> NoHeader, at |-> 0, gate |-> antiDoSOptions(CHOOSE o \in GateOptions : TRUE),
   step |-> "none", backend |-> "none", error |-> NoError, retryAfter |-> 0,
   count |-> 0, limitHeader |-> 0, windowHeader |-> 0, next |-> FALSE]

RlInit ==
  /\ conc = <<>>
  /\ reply = NoReply
  /\ now = 0
  /\ advances = 0
  /\ memoryClients = <<>>
  /\ lastCleanup = 0
  /\ redisDos = [ip \in Ips |-> [count |-> 0, expireAt |-> 0]]
  /\ rlHist = [ip \in Ips |-> <<>>]
  /\ rlNote = [ip \in Ips |-> [gates |-> {}, evicted |-> FALSE]]
  /\ rlReqs = 0
  /\ resp = NoResponse

MutNoIpAfterPayload(gate, contentLength) ==
  /\ resp' = IF PayloadTooLarge(contentLength, gate.maxPayloadSize)
               THEN Response(NoIp, contentLength, gate, "payload", "none",
                             PayloadTooLargeError, CeilSeconds(gate.windowMs), 0, FALSE)
               ELSE Response(NoIp, contentLength, gate, "ip", "none", RateLimitError, 0, 0, FALSE)
  /\ UNCHANGED <<memoryClients, lastCleanup, redisDos, rlHist, rlNote>>

\* if (!ip) throw new RateLimitError("Unable to determine client IP")
AntiDoSNoIp(gate, contentLength) ==
  /\ resp' = Response(NoIp, contentLength, gate, "ip", "none", RateLimitError, 0, 0, FALSE)
  /\ UNCHANGED <<memoryClients, lastCleanup, redisDos, rlHist, rlNote>>

\* lastCleanup after the periodic-cleanup statement
CleanupStamp ==
  IF ~redisClient /\ now - lastCleanup > CLEANUP_INTERVAL THEN now ELSE lastCleanup

\* the payload check throws before the rate-limit branch is entered
AntiDoSPayload(gate, ip, contentLength) ==
  /\ resp' = Response(ip, contentLength, gate, "payload", "none", PayloadTooLargeError,
                      CeilSeconds(gate.windowMs), 0, FALSE)
  /\ lastCleanup' = CleanupStamp
  /\ UNCHANGED <<memoryClients, redisDos, rlHist, rlNote>>

\* the history of the counted checks after one of ip through gate that
\* evicted the keys in victims
NoteCheck(note, ip, gate, victims) ==
  [other \in DOMAIN note |->
     IF other = ip
       THEN [note[ip] EXCEPT !.gates = @ \cup {gate}]
     ELSE IF \E i \in DOMAIN victims : victims[i] = other
       THEN [note[other] EXCEPT !.evicted = TRUE]
     ELSE note[other]]

AntiDoSMemory(gate, ip, contentLength) ==
  LET client == MemoryCheck(memoryClients, ip, now, gate.windowMs)
      count == Len(client.attempts)
      over == OverLimit(count, gate.maxRequests)
  IN /\ memoryClients' =
          LRUCacheSet(LRUCacheGet(memoryClients, ip), MemoryMaxSize, ip, client)
     /\ rlHist' = [rlHist EXCEPT ![ip] = Append(@, now)]
     /\ rlNote' = NoteCheck(rlNote, ip, gate,
                            LRUCacheVictims(LRUCacheGet(memoryClients, ip),
                                            MemoryMaxSize, ip))
     /\ resp' = IF over
                  THEN Response(ip, contentLength, gate, "limit", "memory", RateLimitError,
                                CeilSeconds(gate.windowMs), count, FALSE)
                  ELSE Response(ip, contentLength, gate, "pass", "memory", NoError, 0, count, TRUE)
     /\ lastCleanup' = CleanupStamp
     /\ UNCHANGED redisDos

AntiDoSRedis(gate, ip, contentLength, outcome) ==
  LET entry == RedisIncrExpire(redisDos[ip], now, gate.windowMs)
      current == entry.count
  IN /\ lastCleanup' = CleanupStamp
     /\ UNCHANGED memoryClients
     /\ CASE outcome = "ok" ->
               /\ redisDos' = [redisDos EXCEPT ![ip] = entry]
               /\ rlHist' = [rlHist EXCEPT ![ip] = Append(@, now)]
               /\ rlNote' = NoteCheck(rlNote, ip, gate, <<>>)
               /\ resp' = IF OverLimit(current, gate.maxRequests)
                            THEN Response(ip, contentLength, gate, "limit", "redis", RateLimitError,
                                          CeilSeconds(gate.windowMs), current, FALSE)
                            ELSE Response(ip, contentLength, gate, "pass", "redis", NoError, 0,
                                          current, TRUE)
          [] outcome = "throws" ->
               \* the rejection is rethrown by the catch block
               /\ resp' = Response(ip, contentLength, gate, "fault", "redis", OtherError, 0, 0, FALSE)
               /\ UNCHANGED <<redisDos, rlHist, rlNote>>
          [] outcome = "nocount" ->
               \* current is undefined and `undefined > maxRequests` is false
               /\ resp' = Response(ip, contentLength, gate, "pass", "redis", NoError, 0, 0, TRUE)
               /\ UNCHANGED <<redisDos, rlHist, rlNote>>

\* the handler antiDoS(options) returns, on one request
antiDoSHandler(options, ip, contentLength, outcome) ==
  LET gate == antiDoSOptions(options)
  IN /\ rlReqs' = rlReqs + 1
     /\ reply' = NoReply
     /\ IF ip = NoIp THEN AntiDoSNoIp(gate, contentLength)
        ELSE IF PayloadTooLarge(contentLength, gate.maxPayloadSize)
          THEN AntiDoSPayload(gate, ip, contentLength)
        ELSE IF redisClient THEN AntiDoSRedis(gate, ip, contentLength, outcome)
        ELSE AntiDoSMemory(gate, ip, contentLength)
     /\ UNCHANGED <<concVars, httpVars, env, lruVars, clockVars, redisClient, csrfVars>>

AntiDoS(options, ip, contentLength, outcome) ==
  /\ rlReqs < MaxReqs
  /\ antiDoSHandler(options, ip, contentLength, outcome)
  /\ UNCHANGED pipeVars

\* cleanupAntiDoS(): disconnects and forgets the Redis client, clears the cache
CleanupAntiDoS ==
  /\ redisClient' = FALSE
  /\ memoryClients' = <<>>
  /\ rlHist' = [ip \in Ips |-> <<>>]
  /\ rlNote' = [ip \in Ips |-> [gates |-> {}, evicted |-> FALSE]]
  /\ UNCHANGED <<pipeVars, concVars, httpVars, appVars, lruVars, clockVars, lastCleanup, redisDos, rlReqs, resp, csrfVars>>

(***************************************************************************)
(* Requests in flight at once.  A handler runs without yielding up to its   *)
(* first await.  The memory branch has none, so a local check is one step;  *)
(* the Redis branch awaits multi.exec(): the request is sent, the store     *)
(* runs the transactions it has received one at a time, in any order, and   *)
(* each handler goes on when its own answer is there.                       *)
(***************************************************************************)
\* a request arrives and its handler runs up to its first await or its end
ConcArrive(options, ip) ==
  LET gate   == antiDoSOptions(options)
      client == MemoryCheck(memoryClients, ip, now, gate.windowMs)
      count  == Len(client.attempts)
  IN /\ Len(conc) < MaxInFlight
     /\ conc # <<>> => gate = conc[1].gate      \* one antiDoS instance
     /\ lastCleanup' = CleanupStamp
     /\ IF redisClient
          THEN /\ conc' = Append(conc, [ip |-> ip, gate |-> gate, phase |-> "sent",
                                        at |-> now, count |-> 0, next |-> FALSE,
                                        aborted |-> FALSE])
               /\ UNCHANGED memoryClients
          ELSE /\ memoryClients' =
                    LRUCacheSet(LRUCacheGet(memoryClients, ip), MemoryMaxSize, ip, client)
               /\ conc' = Append(conc, [ip |-> ip, gate |-> gate, phase |-> "done",
                                        at |-> now, count |-> count,
                                        next |-> ~OverLimit(count, gate.maxRequests),
                                        aborted |-> FALSE])
     /\ UNCHANGED <<pipeVars, httpVars, appVars, lruVars, clockVars, csrfVars, redisClient,
                    redisDos, rlHist, rlReqs, rlNote, resp>>

\* the store runs the transaction of a request it has received
ConcExec(i) ==
  LET entry == RedisIncrExpire(redisDos[conc[i].ip], now, conc[i].gate.windowMs)
  IN /\ conc[i].phase = "sent"
     /\ redisDos' = [redisDos EXCEPT ![conc[i].ip] = entry]
     /\ conc' = [conc EXCEPT ![i].phase = "answered", ![i].at = now,
                             ![i].count = entry.count]
     /\ UNCHANGED <<pipeVars, httpVars, appVars, lruVars, clockVars, csrfVars, redisClient,
                    memoryClients, lastCleanup, rlHist, rlReqs, rlNote, resp>>

\* the client of a request goes away after the store ran its transaction
\* and before its handler went on: the handler listens to no close or
\* aborted event of the request
ConcAbort(i) ==
  /\ conc[i].phase = "answered"
  /\ ~conc[i].aborted
  /\ conc' = [conc EXCEPT ![i].aborted = TRUE]
  /\ UNCHANGED <<pipeVars, httpVars, appVars, lruVars, clockVars, csrfVars, rlVars>>

MutResumeRollsBack(i) ==
  LET over == OverLimit(conc[i].count, conc[i].gate.maxRequests)
  IN /\ conc[i].phase = "answered"
     /\ conc' = [conc EXCEPT ![i].phase = "done", ![i].next = ~over]
     /\ redisDos' = IF over \/ conc[i].aborted
                       THEN [redisDos EXCEPT ![conc[i].ip].count = @ - 1]
                       ELSE redisDos
     /\ UNCHANGED <<pipeVars, httpVars, appVars, lruVars, clockVars, csrfVars, redisClient,
                    memoryClients, lastCleanup, rlHist, rlReqs, rlNote, resp>>

\* the handler goes on after its await, whether its client is still there
\* or not: current > maxRequests ?
ConcResume(i) ==
  /\ conc[i].phase = "answered"
  /\ conc' = [conc EXCEPT ![i].phase = "done",
                          ![i].next = ~OverLimit(conc[i].count, conc[i].gate.maxRequests)]
  /\ UNCHANGED <<pipeVars, httpVars, appVars, lruVars, clockVars, csrfVars, rlVars>>

(***************************************************************************)
(* sentrixMiddleware(options) and sentrixErrorHandler.  The model follows   *)
(* one client through the gate that sentrixMiddleware() builds; the error   *)
(* handler is mounted after it and answers what the gate or a later stage   *)
(* (jwtVerifier, csrfProtection, validateRequest, the route) has thrown.    *)
(***************************************************************************)
NoOptions == [maxRequests |-> 0, windowMs |-> 0, maxPayloadSize |-> 0]

\* the options sentrixMiddleware hands to antiDoS
sentrixRateLimitOptions(rateLimitOptions) ==
  [maxRequests    |-> OrDefault(rateLimitOptions.maxRequests, ConfigMaxRequests),
   windowMs       |-> OrDefault(rateLimitOptions.windowMs, ConfigWindowMs),
   maxPayloadSize |-> OrDefault(rateLimitOptions.maxPayloadSize, ConfigMaxPayloadSize)]

\* the requests the client sends through the default gate
AppMaxReqs == ConfigMaxRequests + MaxOverLimit

\* the client pauses before a request whose number is a multiple of this
PauseEvery == ConfigMaxRequests \div 2
AppDeltas == {ConfigWindowMs \div 2}

\* err instanceof SentriXError
SentriXErrors ==
  {SentriXError, ValidationError, AuthenticationError, CSRFError,
   RateLimitError, PayloadTooLargeError}

\* an error that is no SentriXError although it carries a statusCode
HttpError == [name |-> "NotFoundError", statusCode |-> 404, code |-> "NOT_FOUND"]

\* what a stage behind the gate can throw
LaterErrors == SentriXErrors \cup {OtherError, HttpError}

GenericMessage == "Internal server error"
Messages == {"connect ECONNREFUSED 10.0.0.5:6379", GenericMessage}

MutErrorHandlerLeaks(err, message, environment) ==
  IF err \in SentriXErrors
    THEN [status |-> err.statusCode, error |-> message, code |-> err.code]
    ELSE [status |-> 500, code |-> "none",
          error |-> IF environment = "development" THEN GenericMessage ELSE message]

\* res.status(...).json({error, code}) of sentrixErrorHandler
sentrixErrorHandler(err, message, environment) ==
  IF err \in SentriXErrors
    THEN [status |-> err.statusCode, error |-> message, code |-> err.code]
    ELSE [status |-> 500, code |-> "none",
          error |-> IF environment = "production" THEN GenericMessage ELSE message]

\* one request of the client through sentrixMiddleware(), memory backend
SentrixRequest(rateLimitOptions, ip) ==
  /\ rlReqs < AppMaxReqs
  /\ antiDoSHandler(sentrixRateLimitOptions(rateLimitOptions), ip, NoHeader, "ok")
  /\ UNCHANGED pipeVars

\* the error boundary answers the error of the request in flight
SentrixErrorHandler(err, message) ==
  /\ resp.step # "none"
  /\ reply = NoReply
  /\ IF resp.next THEN err \in LaterErrors ELSE err = resp.error
  /\ reply' = [err |-> err, message |-> message,
               answer |-> sentrixErrorHandler(err, message, env)]
  /\ UNCHANGED <<pipeVars, concVars, httpVars, env, lruVars, clockVars, rlVars, csrfVars>>

\* the client waits half a window: before a request whose number is a
\* multiple of PauseEvery, or after it was refused
ClientWaits ==
  /\ rlReqs % PauseEvery = 0 \/ ~resp.next
  /\ reply = NoReply
  /\ AdvanceTime(AppDeltas)

(***************************************************************************)
(* CSRF tokens.  A string is [id, chars, bytes]: which string it is, its    *)
(* JavaScript length and the length of Buffer.from(it).  The n-th value of  *)
(* crypto.randomBytes(32).toString("hex") is Hex(n): 64 hex digits, and     *)
(* different from every value produced before (256 random bits).            *)
(***************************************************************************)
TOKEN_EXPIRY == 3600

Hex(n) == [id |-> n, chars |-> 64, bytes |-> 64]

\* generateCsrfToken(), given the number of tokens produced so far
generateCsrfToken(produced) == Hex(produced + 1)

ShortToken == [id |-> -1, chars |-> 63, bytes |-> 63]    \* not 64 characters
ForgedToken == [id |-> -2, chars |-> 64, bytes |-> 64]   \* 64 chars, never issued
WideToken == [id |-> -3, chars |-> 64, bytes |-> 65]     \* 64 chars, one not ASCII

\* Session ids: the n-th id getOrCreateSessionId generates is n; a request
\* carries the cookie of a session created before, or none (NoCookie).
Sessions == 1..MaxSessions

MutSafeMethodsNoHead == {"GET", "OPTIONS"}

SafeMethods == {"GET", "HEAD", "OPTIONS"}
Methods == {"GET", "HEAD", "OPTIONS", "POST", "DELETE"}

\* The clock of the token specification advances by half the token lifetime.
TokenDeltas == {TOKEN_EXPIRY * 500}

(***************************************************************************)
(* storeToken / getToken on the two stores.                                 *)
(***************************************************************************)
NoEntry == [token |-> NoToken, expiresAt |-> 0]

MutStoreTokenSeconds(tokens, sessionId, token, at) ==
  [tokens EXCEPT ![sessionId] = [token |-> token, expiresAt |-> at + TOKEN_EXPIRY]]

MutStoreTokenKeepsFirst(tokens, sessionId, token, at) ==
  IF tokens[sessionId] # NoEntry THEN tokens
  ELSE [tokens EXCEPT ![sessionId] =
          [token |-> token, expiresAt |-> at + TOKEN_EXPIRY * 1000]]

\* memoryTokens.set(sessionId, {token, expiresAt: Date.now() + TOKEN_EXPIRY * 1000})
storeTokenMemory(tokens, sessionId, token, at) ==
  [tokens EXCEPT ![sessionId] =
     [token |-> token, expiresAt |-> at + TOKEN_EXPIRY * 1000]]

\* SETEX csrf:<sessionId> TOKEN_EXPIRY token
storeTokenRedis(tokens, sessionId, token, at) ==
  [tokens EXCEPT ![sessionId] =
     [token |-> token, expiresAt |-> at + TOKEN_EXPIRY * 1000]]

MutGetTokenIgnoresExpiry(tokens, sessionId, at) == tokens[sessionId].token

MutGetTokenAtExpiry(tokens, sessionId, at) ==
  IF tokens[sessionId] # NoEntry /\ tokens[sessionId].expiresAt >= at
    THEN tokens[sessionId].token
    ELSE NoToken

\* entry && entry.expiresAt > Date.now() ? entry.token : null
getTokenMemory(tokens, sessionId, at) ==
  IF tokens[sessionId] # NoEntry /\ tokens[sessionId].expiresAt > at
    THEN tokens[sessionId].token
    ELSE NoToken

\* GET csrf:<sessionId>: null once the key has expired
getTokenRedis(tokens, sessionId, at) ==
  IF tokens[sessionId] # NoEntry /\ tokens[sessionId].expiresAt > at
    THEN tokens[sessionId].token
    ELSE NoToken

MutSweepEarly(tokens, at) ==
  [sid \in DOMAIN tokens |->
     IF tokens[sid] # NoEntry /\ tokens[sid].expiresAt < at + TOKEN_EXPIRY * 1000
       THEN NoEntry
       ELSE tokens[sid]]

MutSweepAll(tokens, at) == [sid \in DOMAIN tokens |-> NoEntry]

\* the setInterval callback: delete every entry with expiresAt < now
SweepTokens(tokens, at) ==
  [sid \in DOMAIN tokens |->
     IF tokens[sid] # NoEntry /\ tokens[sid].expiresAt < at THEN NoEntry
     ELSE tokens[sid]]

(***************************************************************************)
(* csrfProtection: the checks on one request, given what getToken would     *)
(* return (stored) and whether the lookup fails (Redis only).               *)
(***************************************************************************)
MutTokenFormatAny(submittedToken) == submittedToken # NoToken

\* !(!submittedToken || submittedToken.length !== 64)
TokenFormatOk(submittedToken) ==
  submittedToken # NoToken /\ submittedToken.chars = 64

Verdict(step, lookups, error) ==
  [step |-> step, lookups |-> lookups, error |-> error, next |-> error = NoError]

csrfCheck(method, sessionId, submittedToken, stored, lookupFails) ==
  IF method \in SafeMethods THEN Verdict("safe", 0, NoError)
  ELSE IF sessionId = NoCookie THEN Verdict("session", 0, CSRFError)
  ELSE IF ~TokenFormatOk(submittedToken) THEN Verdict("format", 0, CSRFError)
  ELSE IF lookupFails THEN Verdict("fault", 1, OtherError)
  ELSE IF stored = NoToken THEN Verdict("notfound", 1, CSRFError)
  \* crypto.timingSafeEqual throws a RangeError on buffers of unequal length
  ELSE IF submittedToken.bytes # stored.bytes THEN Verdict("range", 1, OtherError)
  ELSE IF submittedToken # stored THEN Verdict("mismatch", 1, CSRFError)
  ELSE Verdict("pass", 1, NoError)

\* The text of the n-th session id: crypto.randomBytes(32).toString("hex"),
\* 64 hex digits.  Ids and tokens are different random values.
SessionIdText(n) == [id |-> MaxTokens + n, chars |-> 64, bytes |-> 64]

MutSessionCookieSeconds(sessionId, environment) ==
  [name |-> "csrf-token", value |-> SessionIdText(sessionId), httpOnly |-> TRUE,
   secure |-> environment = "production", sameSite |-> "strict",
   maxAge |-> TOKEN_EXPIRY]

\* res.cookie(CSRF_COOKIE, sessionId, {...}); maxAge is in milliseconds
SessionCookie(sessionId, environment) ==
  [name |-> "csrf-token", value |-> SessionIdText(sessionId), httpOnly |-> TRUE,
   secure |-> environment = "production", sameSite |-> "strict",
   maxAge |-> TOKEN_EXPIRY * 1000]

(***************************************************************************)
(* The CSRF middleware and the module's other operations.                   *)
(***************************************************************************)
CsrfInit ==
  /\ cleanupInterval = ~csrfRedis
  /\ memoryTokens = [sid \in Sessions |-> NoEntry]
  /\ redisTokens = [sid \in Sessions |-> NoEntry]
  /\ randomCount = 0
  /\ sessionCount = 0
  /\ issued = [sid \in Sessions |-> [tokens |-> <<>>, cleared |-> FALSE]]
  /\ cresp = NoCsrfResponse

\* the cookies a client can hold: none, or the id of a session created so far
Cookies == {NoCookie} \cup 1..sessionCount

MutGenerateExposesFirst(cookie, storeFails) ==
  LET fresh == cookie = NoCookie
      sessionId == IF fresh THEN sessionCount + 1 ELSE cookie
      token == generateCsrfToken(randomCount)
      sent == [NoCsrfResponse EXCEPT
                 !.kind = "issue", !.cookie = cookie, !.sessionId = sessionId,
                 !.token = token, !.exposed = TRUE, !.setCookie = fresh,
                 !.cookieSet = IF fresh THEN SessionCookie(sessionId, env)
                               ELSE NoSetCookie]
  IN /\ cresp = NoCsrfResponse
     /\ randomCount < MaxTokens
     /\ fresh => sessionCount < MaxSessions
     /\ storeFails => csrfRedis
     /\ randomCount' = randomCount + 1
     /\ sessionCount' = IF fresh THEN sessionCount + 1 ELSE sessionCount
     /\ IF storeFails
          THEN /\ UNCHANGED <<memoryTokens, redisTokens, issued>>
               /\ cresp' = [sent EXCEPT !.step = "fault", !.error = OtherError]
          ELSE /\ IF csrfRedis
                    THEN /\ redisTokens' = storeTokenRedis(redisTokens, sessionId, token, now)
                         /\ UNCHANGED memoryTokens
                    ELSE /\ memoryTokens' = storeTokenMemory(memoryTokens, sessionId, token, now)
                         /\ UNCHANGED redisTokens
               /\ issued' = [issued EXCEPT ![sessionId] =
                               [tokens |-> Append(@.tokens, [token |-> token, at |-> now]),
                                cleared |-> FALSE]]
               /\ cresp' = [sent EXCEPT !.step = "pass", !.next = TRUE]
     /\ UNCHANGED <<pipeVars, concVars, httpVars, appVars, lruVars, clockVars, rlVars, csrfRedis, cleanupInterval>>

\* generateCsrfMiddleware; storeFails: the SETEX is rejected (Redis only)
GenerateCsrf(cookie, storeFails) ==
  LET fresh == cookie = NoCookie
      sessionId == IF fresh THEN sessionCount + 1 ELSE cookie
      token == generateCsrfToken(randomCount)
  IN /\ cresp = NoCsrfResponse
     /\ randomCount < MaxTokens
     /\ fresh => sessionCount < MaxSessions
     /\ storeFails => csrfRedis
     /\ randomCount' = randomCount + 1
     /\ sessionCount' = IF fresh THEN sessionCount + 1 ELSE sessionCount
     /\ IF storeFails
          THEN /\ UNCHANGED <<memoryTokens, redisTokens, issued>>
               /\ cresp' = [NoCsrfResponse EXCEPT
                              !.kind = "issue", !.cookie = cookie,
                              !.sessionId = sessionId,
                              !.step = "fault", !.error = OtherError,
                              !.setCookie = fresh,
                              !.cookieSet = IF fresh THEN SessionCookie(sessionId, env)
                                            ELSE NoSetCookie]
          ELSE /\ IF csrfRedis
                    THEN /\ redisTokens' = storeTokenRedis(redisTokens, sessionId, token, now)
                         /\ UNCHANGED memoryTokens
                    ELSE /\ memoryTokens' = storeTokenMemory(memoryTokens, sessionId, token, now)
                         /\ UNCHANGED redisTokens
               /\ issued' = [issued EXCEPT ![sessionId] =
                               [tokens |-> Append(@.tokens, [token |-> token, at |-> now]),
                                cleared |-> FALSE]]
               /\ cresp' = [NoCsrfResponse EXCEPT
                              !.kind = "issue", !.cookie = cookie,
                              !.sessionId = sessionId, !.token = token,
                              !.step = "pass", !.next = TRUE,
                              !.setCookie = fresh,
                              !.cookieSet = IF fresh THEN SessionCookie(sessionId, env)
                                            ELSE NoSetCookie, !.exposed = TRUE]
     /\ UNCHANGED <<pipeVars, concVars, httpVars, appVars, lruVars, clockVars, rlVars, csrfRedis, cleanupInterval>>

\* csrfProtection; lookupFails: the GET is rejected (Redis only)
CsrfProtection(method, cookie, submittedToken, lookupFails) ==
  LET stored == IF cookie = NoCookie THEN NoToken
                ELSE IF csrfRedis THEN getTokenRedis(redisTokens, cookie, now)
                ELSE getTokenMemory(memoryTokens, cookie, now)
      verdict == csrfCheck(method, cookie, submittedToken, stored, lookupFails)
  IN /\ cresp = NoCsrfResponse
     /\ lookupFails => csrfRedis
     /\ cresp' = [NoCsrfResponse EXCEPT
                    !.kind = "validate", !.method = method, !.cookie = cookie,
                    !.sessionId = cookie, !.token = submittedToken,
                    !.step = verdict.step, !.lookups = verdict.lookups,
                    !.error = verdict.error, !.next = verdict.next]
     /\ UNCHANGED <<pipeVars, concVars, httpVars, appVars, lruVars, clockVars, rlVars, csrfRedis, cleanupInterval,
                    memoryTokens, redisTokens, randomCount, sessionCount, issued>>

\* The response leaves; Node runs one handler at a time, so the next request
\* is handled after it.
ResponseSent ==
  /\ cresp # NoCsrfResponse
  /\ cresp' = NoCsrfResponse
  /\ UNCHANGED <<pipeVars, concVars, httpVars, appVars, lruVars, clockVars, rlVars, csrfRedis, cleanupInterval,
                 memoryTokens, redisTokens, randomCount, sessionCount, issued>>

\* one run of the setInterval callback
Sweep ==
  /\ cleanupInterval
  /\ memoryTokens' = SweepTokens(memoryTokens, now)
  /\ cresp' = NoCsrfResponse
  /\ UNCHANGED <<pipeVars, concVars, httpVars, appVars, lruVars, clockVars, rlVars, csrfRedis, cleanupInterval,
                 redisTokens, randomCount, sessionCount, issued>>

\* cleanupCsrf()
CleanupCsrf ==
  /\ cleanupInterval' = FALSE
  /\ csrfRedis' = FALSE
  /\ memoryTokens' = [sid \in Sessions |-> NoEntry]
  /\ issued' = [sid \in Sessions |-> [issued[sid] EXCEPT !.cleared = TRUE]]
  /\ cresp' = NoCsrfResponse
  /\ UNCHANGED <<pipeVars, concVars, httpVars, appVars, lruVars, clockVars, rlVars, redisTokens, randomCount, sessionCount>>

\* the header values a client can submit: nothing, a malformed or forged
\* value, or any token issued so far
Submitted == {NoToken, ShortToken, ForgedToken, WideToken}
               \cup {Hex(n) : n \in 1..randomCount}

(***************************************************************************)
(* SafeHttpClient (http/outboundClient.ts).  A URL is one of a few texts;   *)
(* Hostname is what `new URL(url).hostname` gives for it: the host in lower *)
(* case, without user info, port and path; "<TypeError>" when the           *)
(* constructor throws.                                                      *)
(***************************************************************************)
HttpRetries == 2
HttpTimeoutMs == 5000
ConfigSafeDomains == {"api.example.com"}

Urls ==
  {"https://api.example.com/v1", "https://API.Example.com:8443/v1",
   "https://evil.test/v1", "https://api.example.com.evil.test/",
   "https://api.example.com@evil.test/", "api.example.com/v1"}

Hostname(url) ==
  CASE url = "https://api.example.com/v1" -> "api.example.com"
    [] url = "https://API.Example.com:8443/v1" -> "api.example.com"
    [] url = "https://evil.test/v1" -> "evil.test"
    [] url = "https://api.example.com.evil.test/" -> "api.example.com.evil.test"
    [] url = "https://api.example.com@evil.test/" -> "evil.test"
    [] OTHER -> "<TypeError>"

\* the options of the constructor; given = FALSE and 0: not given
NoDomains == [given |-> FALSE, list |-> {}]
DomainOptions ==
  {NoDomains} \cup
  {[given |-> TRUE, list |-> l] :
     l \in {{}, {"api.example.com"}, {"evil.test", "API.Example.com"}}}
RetryOptions == {0, 1, 3}

\* new SafeHttpClient(options)
SafeHttpClient(domains, retries) ==
  [safeDomains |-> IF domains.given THEN domains.list ELSE ConfigSafeDomains,
   retries     |-> IF retries = 0 THEN HttpRetries ELSE retries]

IdleCall ==
  [url |-> "none", phase |-> "idle", attempt |-> 0, calls |-> 0,
   fetches |-> 0, waits |-> <<>>, result |-> "none"]

HttpInit(domainOptions, retryOptions) ==
  /\ \E domains \in domainOptions, retries \in retryOptions :
        hc = SafeHttpClient(domains, retries)
  /\ hcall = IdleCall

MutCheckUrlSuffix(safeDomains, url) ==
  \/ Hostname(url) \in safeDomains
  \/ Hostname(url) = "api.example.com.evil.test" /\ "evil.test" \in safeDomains
  \/ Hostname(url) = "<TypeError>"

\* checkUrl does not throw
checkUrl(safeDomains, url) ==
  /\ Hostname(url) # "<TypeError>"
  /\ Hostname(url) \in safeDomains

MutBackoffLinear(attempt) == 1000 * (attempt + 1)

\* 1000 * Math.pow(2, attempt)
Pow2(n) == IF n = 0 THEN 1 ELSE IF n = 1 THEN 2 ELSE IF n = 2 THEN 4 ELSE 8
backoffMs(attempt) == 1000 * Pow2(attempt)

\* get / post / put / delete: fetchWithRetry up to its first await
FetchWithRetry(url) ==
  /\ hcall.phase \in {"idle", "done"}
  /\ hcall.calls < MaxCalls
  /\ hcall' = IF checkUrl(hc.safeDomains, url)
                THEN [url |-> url, phase |-> "attempt", attempt |-> 0,
                      calls |-> hcall.calls + 1, fetches |-> 0, waits |-> <<>>,
                      result |-> "none"]
                ELSE [url |-> url, phase |-> "done", attempt |-> 0,
                      calls |-> hcall.calls + 1, fetches |-> 0, waits |-> <<>>,
                      result |-> "blocked"]
  /\ UNCHANGED <<pipeVars, concVars, hc, lruVars, clockVars, rlVars, csrfVars, appVars>>

\* one pass through the loop body: fetch(url) answers or throws (a network
\* error, or the abort after timeoutMs)
FetchAttempt(outcome) ==
  /\ hcall.phase = "attempt"
  /\ hcall.attempt <= hc.retries
  /\ hcall' =
       IF outcome = "response"
         THEN [hcall EXCEPT !.fetches = @ + 1, !.phase = "done",
                            !.result = "response"]
       ELSE IF hcall.attempt = hc.retries
         THEN [hcall EXCEPT !.fetches = @ + 1, !.phase = "done",
                            !.result = "failed"]
       ELSE [hcall EXCEPT !.fetches = @ + 1, !.phase = "backoff",
                          !.waits = Append(@, backoffMs(hcall.attempt))]
  /\ UNCHANGED <<pipeVars, concVars, hc, lruVars, clockVars, rlVars, csrfVars, appVars>>

\* the backoff timer fires and the loop goes on with attempt++
BackoffOver ==
  /\ hcall.phase = "backoff"
  /\ hcall' = [hcall EXCEPT !.phase = "attempt", !.attempt = @ + 1]
  /\ UNCHANGED <<pipeVars, concVars, hc, lruVars, clockVars, rlVars, csrfVars, appVars>>

(***************************************************************************)
(* Claims about the rate-limit gate.                                        *)
(***************************************************************************)
\* resp is the response to the latest counted check of its client: the
\* check obtained a count and its time is the last one in the history
LatestCheck(backend) ==
  /\ resp.backend = backend
  /\ resp.step \in {"limit", "pass"}
  /\ resp.ip \in Ips
  /\ resp.count >= 1
  /\ rlHist[resp.ip] # <<>>
  /\ rlHist[resp.ip][Len(rlHist[resp.ip])] = resp.at

OnlyClient(ip) == \A other \in Ips \ {ip} : rlHist[other] = <<>>

Rejected429 == ~resp.next /\ resp.error.name = "RateLimitError"
                 /\ resp.error.statusCode = 429

\* n is ceil(ms / 1000)
IsCeilSeconds(n, ms) == n * 1000 >= ms /\ (n - 1) * 1000 < ms

\* C3: local backend, one client without history, limit L >= 1, window W:
\* of the checks made at one instant the k-th is admitted iff k <= L and the
\* others get 429; a later check made when every earlier timestamp is at
\* least W old is admitted again.
C3_LocalSlidingWindow ==
  LET h == rlHist[resp.ip]
      k == Len(h)
      L == resp.gate.maxRequests
      W == resp.gate.windowMs
  IN (LatestCheck("memory") /\ OnlyClient(resp.ip) /\ L >= 1) =>
       /\ (\A i \in 1..k : h[i] = resp.at)
            => /\ resp.next <=> k <= L
               /\ ~resp.next => Rejected429
       /\ (\A i \in 1..(k - 1) : resp.at - h[i] >= W) => resp.next

C3_Witness ==
  LET h == rlHist[resp.ip]
  IN /\ LatestCheck("memory") /\ OnlyClient(resp.ip)
     /\ resp.gate.maxRequests = 1
     /\ Len(h) = 3 /\ h[1] = h[2]
     /\ resp.at - h[2] = resp.gate.windowMs
     /\ resp.next

\* The smallest window any gate of the model applies.
MinWindowMs == CHOOSE w \in {g.windowMs : g \in Gates} :
                 \A g \in Gates : w <= g.windowMs

\* the counter of the client has been live since its first increment: each
\* increment came less than the smallest window after the one before
InsideWindow(h) == \A i \in 1..(Len(h) - 1) : h[i + 1] - h[i] < MinWindowMs

\* C4: shared backend, a client starting from no counter, limit L, window
\* W: the k-th increment inside the window is admitted iff k <= L, and a
\* denied one is a 429 carrying Retry-After = ceil(W / 1000) seconds.
C4_SharedWindow ==
  LET h == rlHist[resp.ip]
      k == Len(h)
  IN (LatestCheck("redis") /\ InsideWindow(h)) =>
       /\ resp.count = k
       /\ resp.next <=> k <= resp.gate.maxRequests
       /\ ~resp.next => /\ Rejected429
                        /\ IsCeilSeconds(resp.retryAfter, resp.gate.windowMs)

C4_Witness ==
  /\ LatestCheck("redis") /\ InsideWindow(rlHist[resp.ip])
  /\ resp.gate.maxRequests = 2 /\ resp.gate.windowMs = 1500
  /\ resp.count = 3 /\ ~resp.next /\ resp.retryAfter = 2
  /\ rlHist[resp.ip][1] < resp.at

\* the length a decimal content-length header declares
Declared(contentLength) == IF contentLength = "100" THEN 100 ELSE 101

\* C5: a request whose declared content length exceeds maxPayloadSize is
\* rejected with PayloadTooLarge (413), whatever the client's count, and the
\* rejection leaves the client's rate-limit state as it was, on both
\* backends: no timestamp appended, no counter incremented.
C5_PayloadGuard ==
  [][( /\ rlReqs' = rlReqs + 1
       /\ resp'.ip \in Ips
       /\ resp'.contentLength \in {"100", "101"}
       /\ Declared(resp'.contentLength) > resp'.gate.maxPayloadSize )
     => /\ resp'.step = "payload"
        /\ resp'.error.name = "PayloadTooLargeError"
        /\ resp'.error.statusCode = 413
        /\ ~resp'.next
        /\ memoryClients' = memoryClients
        /\ redisDos' = redisDos
        /\ rlHist' = rlHist]_vars

\* an oversized request of a client whose count would still admit it
C5_Witness ==
  /\ resp.step = "payload" /\ resp.error.statusCode = 413
  /\ resp.ip \in Ips /\ rlHist[resp.ip] = <<>>
  /\ rlReqs = 1

(***************************************************************************)
(* Claims about the CSRF guard.  cresp is the response to the request the   *)
(* latest step handled, so the state it is read in is the state the request *)
(* was answered in.                                                         *)
(***************************************************************************)
\* csrfProtection has just answered a request with a method that is not
\* GET, HEAD or OPTIONS
UnsafeValidated ==
  cresp.kind = "validate" /\ cresp.method \notin {"GET", "HEAD", "OPTIONS"}

\* the token most recently issued for a session that has one
LastIssued(sid) == issued[sid].tokens[Len(issued[sid].tokens)]

TtlMs == 3600 * 1000

\* the entry the store in use holds for a session
StoreEntry(sid) == IF csrfRedis THEN redisTokens[sid] ELSE memoryTokens[sid]

\* C6: csrfProtection passes an unsafe-method request only if the submitted
\* token is the one most recently issued for the session id of the request's
\* own cookie and less than the TTL has passed since that issuance.
C6_OnlySessionToken ==
  (UnsafeValidated /\ cresp.next) =>
    /\ cresp.cookie # NoCookie
    /\ issued[cresp.cookie].tokens # <<>>
    /\ cresp.token = LastIssued(cresp.cookie).token
    /\ now - LastIssued(cresp.cookie).at < TtlMs

\* a request accepted some time after its token was issued, while another
\* session holds a token of its own
C6_Witness ==
  /\ UnsafeValidated /\ cresp.next
  /\ \E other \in Sessions \ {cresp.cookie} : issued[other].tokens # <<>>
  /\ now > LastIssued(cresp.cookie).at

\* the request submits, with the session's cookie, the token most recently
\* issued for the session, before the TTL has passed, the store not having
\* been torn down by cleanupCsrf in between
SubmitsLiveToken ==
  /\ UnsafeValidated
  /\ cresp.cookie # NoCookie
  /\ issued[cresp.cookie].tokens # <<>>
  /\ ~issued[cresp.cookie].cleared
  /\ cresp.token = LastIssued(cresp.cookie).token
  /\ now - LastIssued(cresp.cookie).at < TtlMs

\* C7: a token issued for a session and submitted with that session's
\* cookie on a state-changing request is accepted whenever the lookup is
\* answered, at every submission up to the next issuance for the session or
\* the end of the TTL; validation leaves the stored token in place; every
\* issued token is 64 characters long.
C7_RoundTrip ==
  /\ (SubmitsLiveToken /\ cresp.step # "fault")
       => /\ cresp.next
          /\ StoreEntry(cresp.cookie).token = cresp.token
  /\ \A sid \in Sessions : \A i \in DOMAIN issued[sid].tokens :
       issued[sid].tokens[i].token.chars = 64

\* the token is accepted again some time after it was issued
C7_Witness ==
  /\ SubmitsLiveToken /\ cresp.next
  /\ now > LastIssued(cresp.cookie).at

\* C8: on an unsafe method a missing session id is rejected first; then a
\* token that is absent or not exactly 64 characters long is rejected with
\* no lookup made; a lookup is made only for a 64-character token, and a
\* wrong 64-character token is rejected only after the lookup.
C8_RejectionOrder ==
  UnsafeValidated =>
    /\ cresp.cookie = NoCookie
         => cresp.step = "session" /\ cresp.lookups = 0 /\ cresp.error = CSRFError
    /\ (cresp.cookie # NoCookie /\ (cresp.token = NoToken \/ cresp.token.chars # 64))
         => cresp.step = "format" /\ cresp.lookups = 0 /\ cresp.error = CSRFError
    /\ cresp.lookups > 0 => cresp.cookie # NoCookie /\ cresp.token.chars = 64
    /\ cresp.step = "mismatch"
         => cresp.lookups = 1 /\ cresp.token.chars = 64 /\ ~cresp.next

\* a forged 64-character token, rejected after the lookup found the real one
C8_Witness ==
  /\ UnsafeValidated /\ cresp.step = "mismatch" /\ cresp.token = ForgedToken
  /\ StoreEntry(cresp.cookie) # NoEntry

\* C9: csrfProtection passes every GET, HEAD or OPTIONS request on, whatever
\* its cookie, its token and the store hold, with no lookup and no change of
\* the token stores.
C9_SafeMethodBypass ==
  [][(cresp'.kind = "validate" /\ cresp.kind = "none"
        /\ cresp'.method \in {"GET", "HEAD", "OPTIONS"})
     => /\ cresp'.next /\ cresp'.error = NoError
        /\ cresp'.lookups = 0
        /\ memoryTokens' = memoryTokens
        /\ redisTokens' = redisTokens]_vars

\* a HEAD request without cookie and with a malformed token, passed on
C9_Witness ==
  /\ cresp.kind = "validate" /\ cresp.method = "HEAD"
  /\ cresp.cookie = NoCookie /\ cresp.token = ShortToken
  /\ cresp.next
  /\ \E sid \in Sessions : StoreEntry(sid) # NoEntry

\* the header values csrfProtection would accept for a session now
Acceptable(sid) ==
  {token \in Submitted :
     csrfCheck("POST", sid, token,
               IF csrfRedis THEN getTokenRedis(redisTokens, sid, now)
               ELSE getTokenMemory(memoryTokens, sid, now), FALSE).next}

\* C10: a session id has at most one live token at any time: once a second
\* token has been issued for it, every earlier token is rejected and only
\* the latest one is accepted, in the local and in the shared store.
C10_OneLiveToken ==
  /\ \A sid \in Sessions : Cardinality(Acceptable(sid)) <= 1
  /\ (UnsafeValidated /\ cresp.cookie # NoCookie
        /\ Len(issued[cresp.cookie].tokens) >= 2) =>
       LET tokens == issued[cresp.cookie].tokens
       IN /\ (\E i \in 1..(Len(tokens) - 1) : cresp.token = tokens[i].token)
               => ~cresp.next
          /\ (SubmitsLiveToken /\ cresp.step # "fault") => cresp.next

\* the first token of a session, rejected at the instant the second was
\* issued, in the shared store
C10_Witness ==
  /\ UnsafeValidated /\ cresp.cookie # NoCookie /\ csrfRedis
  /\ Len(issued[cresp.cookie].tokens) = 2
  /\ cresp.token = issued[cresp.cookie].tokens[1].token
  /\ now = LastIssued(cresp.cookie).at
  /\ ~cresp.next

\* C11: the local lookup for a session returns the stored token iff a token
\* was issued for the session and less than the one-hour TTL has passed since
\* the most recent issuance; it returns nothing when no token was ever issued
\* or the TTL is over, whether the sweep has removed the entry or not (the
\* store not having been torn down by cleanupCsrf since the issuance).
C11_LocalLookup ==
  ~csrfRedis =>
    \A sid \in Sessions :
      ~issued[sid].cleared =>
        LET found == getTokenMemory(memoryTokens, sid, now)
            live == /\ issued[sid].tokens # <<>>
                    /\ now - LastIssued(sid).at < TtlMs
        IN /\ live => found = LastIssued(sid).token
           /\ ~live => found = NoToken
           /\ (UnsafeValidated /\ cresp.cookie = sid /\ cresp.lookups = 1)
                => (cresp.step = "notfound" <=> ~live)

\* a lookup made at the instant the TTL ends, the entry still in the map
C11_Witness ==
  /\ ~csrfRedis /\ UnsafeValidated /\ cresp.cookie # NoCookie
  /\ ~issued[cresp.cookie].cleared
  /\ cresp.step = "notfound"
  /\ memoryTokens[cresp.cookie] # NoEntry
  /\ now - LastIssued(cresp.cookie).at = TtlMs

\* C12: every validation failure on an unsafe method is the typed CSRF error
\* with status 403; for a session with a live stored token, a submitted token
\* of exactly 64 characters that differs from the stored one is rejected as
\* a 403 token mismatch, never accepted and never another kind of error.
C12_TypedMismatch ==
  LET entry == StoreEntry(cresp.cookie)
  IN (/\ UnsafeValidated /\ cresp.cookie # NoCookie
      /\ cresp.step # "fault"
      /\ entry # NoEntry /\ entry.expiresAt > now
      /\ cresp.token # NoToken /\ cresp.token.chars = 64
      /\ cresp.token # entry.token)
       => /\ ~cresp.next
          /\ cresp.step = "mismatch"
          /\ cresp.error.name = "CSRFError" /\ cresp.error.statusCode = 403

\* C13: when the rate-limit check finds the count greater than the limit the
\* request is rejected as RateLimitError with status 429 and Retry-After =
\* ceil(windowMs / 1000) seconds, on both backends, and next() is not called.
C13_Denial ==
  (/\ resp.backend \in {"memory", "redis"}
   /\ resp.count > resp.gate.maxRequests)
    => /\ Rejected429
       /\ IsCeilSeconds(resp.retryAfter, resp.gate.windowMs)
       /\ resp.limitHeader = 0 /\ resp.windowHeader = 0

\* the third request of a client held to 2 per 1500 ms, local backend
C13_Witness ==
  /\ resp.backend = "memory" /\ resp.gate.maxRequests = 2
  /\ resp.gate.windowMs = 1500
  /\ resp.count = 3 /\ Rejected429 /\ resp.retryAfter = 2

\* C14: a client denied by the rate limit that then sends nothing for
\* windowMs is admitted on its next request, on both backends and for any
\* limit >= 1 (the next request passing the payload check and, on the shared
\* backend, its transaction being answered): no block outlasts windowMs of
\* silence.
C14_BlockEnds ==
  [][(/\ rlReqs' = rlReqs + 1
      /\ resp.step = "limit" /\ Rejected429
      /\ resp.gate.maxRequests >= 1
      /\ resp'.ip = resp.ip /\ resp'.gate = resp.gate
      /\ resp'.at - resp.at >= resp.gate.windowMs
      /\ resp'.step \notin {"payload", "fault"})
     => resp'.next /\ resp'.error = NoError]_vars

\* shared backend: two checks at one instant against a limit of 1, the second
\* denied, and a third exactly windowMs later that is admitted with count 1
C14_Witness ==
  LET h == rlHist[resp.ip]
  IN /\ LatestCheck("redis") /\ resp.gate.maxRequests = 1
     /\ Len(h) = 3 /\ h[1] = h[2]
     /\ resp.at - h[2] = resp.gate.windowMs
     /\ resp.next /\ resp.count = 1

\* C15: in shared mode a check whose increment-with-expiry transaction
\* delivers no post-increment count (store unreachable, transaction rejected,
\* result missing or errored) never admits the request: the caller gets an
\* error and next() is not called without one.
C15_FailClosed ==
  (/\ resp.backend = "redis"
   /\ resp.step \in {"limit", "pass", "fault"}
   /\ resp.count = 0)
    => ~resp.next /\ resp.error # NoError

\* C16: a request whose client key cannot be resolved is rejected with the
\* 429 rate-limit error before the payload-size check and before any
\* rate-limit state is read or changed.
C16_NoKey ==
  [][(rlReqs' = rlReqs + 1 /\ resp'.ip = NoIp)
     => /\ resp'.step = "ip"
        /\ ~resp'.next
        /\ resp'.error.name = "RateLimitError" /\ resp'.error.statusCode = 429
        /\ resp'.backend = "none"
        /\ memoryClients' = memoryClients
        /\ redisDos' = redisDos
        /\ lastCleanup' = lastCleanup
        /\ rlHist' = rlHist]_vars

\* a request without client key that also declares an oversized body
C16_Witness ==
  /\ resp.ip = NoIp /\ resp.step = "ip" /\ Rejected429
  /\ resp.contentLength = "101" /\ resp.gate.maxPayloadSize = 100

\* C17: a request the gate passes gets X-RateLimit-Limit = the configured
\* limit and X-RateLimit-Window = ceil(windowMs / 1000), never the live
\* count, and next() is then called; a rejected request gets neither header
\* and next() is not called without an error.
C17_PassHeaders ==
  resp.step # "none" =>
    /\ resp.next =>
         /\ resp.error = NoError
         /\ resp.limitHeader = resp.gate.maxRequests
         /\ IsCeilSeconds(resp.windowHeader, resp.gate.windowMs)
    /\ ~resp.next =>
         /\ resp.error # NoError
         /\ resp.limitHeader = 0 /\ resp.windowHeader = 0

\* the first request of a client held to 2 per 1500 ms: count 1, limit 2
C17_Witness ==
  /\ resp.next /\ resp.backend = "memory"
  /\ resp.count = 1 /\ resp.limitHeader = 2 /\ resp.windowHeader = 2

\* the issuance middleware has just answered a request and stored its token
Issued == cresp.kind = "issue" /\ cresp.step = "pass"

\* C19: issuance for a request that carries a session cookie stores the new
\* token under that session id and sets no cookie; issuance for a request
\* without one generates a fresh session id of 64 hex characters, sets it as
\* the cookie (HTTP-only, same-site strict, max-age the token TTL) and stores
\* the token under it.
C19_Issuance ==
  Issued =>
    /\ StoreEntry(cresp.sessionId).token = cresp.token
    /\ cresp.token = LastIssued(cresp.sessionId).token
    /\ cresp.cookie # NoCookie =>
         /\ cresp.sessionId = cresp.cookie
         /\ ~cresp.setCookie /\ cresp.cookieSet = NoSetCookie
    /\ cresp.cookie = NoCookie =>
         /\ cresp.sessionId = sessionCount
         /\ Len(issued[cresp.sessionId].tokens) = 1
         /\ cresp.setCookie
         /\ cresp.cookieSet.value = SessionIdText(cresp.sessionId)
         /\ cresp.cookieSet.value.chars = 64
         /\ cresp.cookieSet.httpOnly
         /\ cresp.cookieSet.sameSite = "strict"
         /\ cresp.cookieSet.maxAge = TtlMs

\* a second session created while the first one holds a token
C19_Witness ==
  /\ Issued /\ cresp.cookie = NoCookie /\ cresp.sessionId = 2
  /\ cresp.cookieSet.maxAge = 3600000
  /\ StoreEntry(1) # NoEntry

(***************************************************************************)
(* Claims about sentrixMiddleware() and the error boundary.                 *)
(***************************************************************************)
\* C18: the error boundary answers every typed error with its own status and
\* code (validation 400, authentication 401, CSRF 403, payload too large
\* 413, rate limit 429) and every other error with status 500, whose body
\* in production is the text "Internal server error", whatever the message
\* of the fault.
C18_ErrorBoundary ==
  LET OwnStatus(name) ==
        CASE name = "ValidationError" -> 400
          [] name = "AuthenticationError" -> 401
          [] name = "CSRFError" -> 403
          [] name = "PayloadTooLargeError" -> 413
          [] name = "RateLimitError" -> 429
      OwnCode(name) ==
        CASE name = "ValidationError" -> "VALIDATION_ERROR"
          [] name = "AuthenticationError" -> "AUTHENTICATION_ERROR"
          [] name = "CSRFError" -> "CSRF_ERROR"
          [] name = "PayloadTooLargeError" -> "PAYLOAD_TOO_LARGE"
          [] name = "RateLimitError" -> "RATE_LIMIT_ERROR"
      Named == {"ValidationError", "AuthenticationError", "CSRFError",
                "PayloadTooLargeError", "RateLimitError"}
  IN reply # NoReply =>
       /\ reply.err.name \in Named =>
            /\ reply.answer.status = OwnStatus(reply.err.name)
            /\ reply.answer.code = OwnCode(reply.err.name)
       /\ reply.err.name \notin Named \cup {"SentriXError"} =>
            /\ reply.answer.status = 500
            /\ env = "production" => reply.answer.error = "Internal server error"

\* in production, an error that is no SentriXError and carries a status of
\* its own and a message with detail
C18_Witness ==
  /\ env = "production" /\ reply.err = HttpError
  /\ reply.message # GenericMessage
  /\ reply.answer.status = 500 /\ reply.answer.error = GenericMessage

\* the client's checks inside the hour that ends with the latest one
InLastHour ==
  LET h == rlHist[resp.ip]
  IN Cardinality({i \in DOMAIN h : resp.at - h[i] < 3600000})

\* C20: sentrixMiddleware() without options holds each client to 100
\* requests per hour: the gate it builds has limit 100, window 3,600,000 ms
\* and maximal payload 1,048,576 bytes, and a client's request is refused
\* with 429 iff it is at least its 101st inside one hour.
C20_DefaultGate ==
  resp.step # "none" =>
    /\ resp.gate = [maxRequests |-> 100, windowMs |-> 3600000,
                    maxPayloadSize |-> 1048576]
    /\ LatestCheck("memory") =>
         /\ InLastHour >= 101 => Rejected429
         /\ InLastHour <= 100 => resp.next

\* the 101st request, half an hour after the first
C20_Witness ==
  /\ LatestCheck("memory") /\ InLastHour = 101 /\ Rejected429
  /\ rlHist[resp.ip][1] < resp.at

(***************************************************************************)
(* Claims about SafeHttpClient.                                             *)
(***************************************************************************)
\* C21: SafeHttpClient makes no network attempt for a URL whose hostname is
\* not in its set of allowed domains: the check runs before the first
\* attempt and the call fails at once, with no fetch call and no retry.
C21_BlockedNoFetch ==
  (hcall.url \in Urls /\ Hostname(hcall.url) \notin hc.safeDomains) =>
    /\ hcall.phase = "done" /\ hcall.result = "blocked"
    /\ hcall.fetches = 0 /\ hcall.waits = <<>> /\ hcall.attempt = 0

\* a URL that only begins with an allowed domain, blocked without a fetch
C21_Witness ==
  /\ hcall.url = "https://api.example.com.evil.test/"
  /\ "api.example.com" \in hc.safeDomains
  /\ hcall.result = "blocked" /\ hcall.fetches = 0

\* the entries of a cache other than the one of a key
Others(cache, key) == {e \in {cache[i] : i \in DOMAIN cache} : e.k # key}

\* C22: get on a present key returns its value and makes the key the most
\* recently used one, the key set staying as it is; get on an absent key
\* changes nothing; set on a present key overwrites the value and makes the
\* key the most recently used one without evicting a key, also when the
\* cache is at capacity.
C22_TouchFrame ==
  [][/\ \A key \in LruKeys :
          LruGet(key) =>
            IF MapHas(lru, key)
              THEN /\ MapKeys(lru') = MapKeys(lru)
                   /\ lru'[Len(lru')] = [k |-> key, v |-> MapGet(lru, key)]
                   /\ Others(lru', key) = Others(lru, key)
                   /\ lruEvicted' = lruEvicted
              ELSE lru' = lru
     /\ \A key \in LruKeys, value \in LruVals :
          (LruSet(key, value) /\ MapHas(lru, key)) =>
            /\ MapKeys(lru') = MapKeys(lru)
            /\ lru'[Len(lru')] = [k |-> key, v |-> value]
            /\ Others(lru', key) = Others(lru, key)
            /\ lruEvicted' = lruEvicted]_vars

\* a full cache of capacity 2 after set A, set B, get A, set B, get C
C22_Witness ==
  /\ lruMax = 2 /\ lruScript = ScriptTouch
  /\ Len(lru) = 2 /\ lru[1].k = "A" /\ lru[2].k = "B"
  /\ lruEvicted = <<>>

\* C23: local backend: a check drops every stored timestamp t of the client
\* with now - t >= windowMs, appends now, stores the list and only then
\* compares its length with the limit; right after a check, admitted or
\* not, the client's stored list holds only timestamps t with
\* now - t < windowMs, its last element is now and its length is the count.
C23_PruneAppendStore ==
  (LatestCheck("memory") /\ resp.at = now) =>
    /\ MapHas(memoryClients, resp.ip)
    /\ LET attempts == MapGet(memoryClients, resp.ip).attempts
       IN /\ attempts # <<>>
          /\ \A i \in DOMAIN attempts : now - attempts[i] < resp.gate.windowMs
          /\ attempts[Len(attempts)] = now
          /\ resp.count = Len(attempts)
          /\ resp.next <=> Len(attempts) <= resp.gate.maxRequests

\* a refused check that pruned: three checks made, two timestamps stored
C23_Witness ==
  /\ LatestCheck("memory") /\ resp.at = now /\ ~resp.next
  /\ Len(rlHist[resp.ip]) = 3
  /\ rlHist[resp.ip][1] < now
  /\ MapGet(memoryClients, resp.ip).attempts = <<now, now>>

\* the checks of the latest client in the window that ends with its latest
TrailingChecks ==
  LET h == rlHist[resp.ip]
  IN Cardinality({i \in DOMAIN h : resp.at - h[i] < resp.gate.windowMs})

\* C24 as stated: local backend: the count of every decision is the number
\* of checks made for the client key in the trailing windowMs, this one
\* included, whatever checks other clients and other gates made before.
C24_AsStated ==
  LatestCheck("memory") => resp.count = TrailingChecks

\* C24 amended: the count is that number as long as the client's entry has
\* not been evicted from the cache and no check of the client has run
\* under a windowMs shorter than this one; otherwise it is at most that
\* number.
C24_SlidingCount ==
  LatestCheck("memory") =>
    /\ resp.count <= TrailingChecks
    /\ (/\ ~rlNote[resp.ip].evicted
        /\ \A g \in rlNote[resp.ip].gates : g.windowMs >= resp.gate.windowMs)
         => resp.count = TrailingChecks

\* three checks of one client under the longer window, all counted, while
\* another client's entry was evicted
C24_Witness ==
  /\ LatestCheck("memory") /\ ~rlNote[resp.ip].evicted
  /\ rlNote[resp.ip].gates = {resp.gate}
  /\ resp.gate.windowMs = 1500
  /\ resp.count = 2 /\ TrailingChecks = 2
  /\ rlHist[resp.ip][1] < resp.at
  /\ \E other \in Ips : rlNote[other].evicted

\* every counted check of the latest client went through the latest gate
SameGate == rlNote[resp.ip].gates = {resp.gate}

\* C25 as stated: shared backend: the client's counter is reset exactly
\* windowMs after the first increment of the current window, however many
\* increments follow inside it.
C25_AsStated ==
  LET h == rlHist[resp.ip]
  IN (LatestCheck("redis") /\ SameGate /\ InsideWindow(h)) =>
       (redisDos[resp.ip].count > 0 <=> now < h[1] + resp.gate.windowMs)

\* C25 amended: the counter is reset exactly windowMs after the latest
\* increment: every increment sets the expiry anew, so the counter lives,
\* with the count of the latest check, until windowMs have passed without a
\* request of the client.
C25_ExpiryRestarts ==
  LatestCheck("redis") =>
    LET entry == redisDos[resp.ip]
    IN /\ entry.count > 0 <=> now < resp.at + resp.gate.windowMs
       /\ entry.count > 0 =>
            /\ entry.count = resp.count
            /\ entry.expireAt = resp.at + resp.gate.windowMs

\* two increments 500 ms apart under a window of 1000 ms; 1000 ms after the
\* first one the counter is still 2
C25_Witness ==
  LET h == rlHist[resp.ip]
  IN /\ LatestCheck("redis") /\ SameGate /\ resp.gate.windowMs = 1000
     /\ Len(h) = 2 /\ h[2] = h[1] + 500
     /\ now = h[1] + 1000
     /\ redisDos[resp.ip].count = 2

\* the timestamps the local variant would hold after the first n checks of a
\* history h, all under windowMs
RECURSIVE LocalAttempts(_, _, _)
LocalAttempts(h, n, windowMs) ==
  IF n = 0 THEN <<>>
  ELSE Append(FilterAttempts(LocalAttempts(h, n - 1, windowMs), h[n], windowMs), h[n])

\* the count the local variant would give the latest check
LocalCount ==
  Len(LocalAttempts(rlHist[resp.ip], Len(rlHist[resp.ip]), resp.gate.windowMs))

\* C26 as stated: the shared variant is the more lenient one: over any
\* sequence of checks of one client under one limit and windowMs, a check
\* the shared variant denies is denied by the local variant too.
C26_AsStated ==
  (LatestCheck("redis") /\ SameGate /\ ~resp.next) =>
    OverLimit(LocalCount, resp.gate.maxRequests)

\* C26 amended: the shared variant is the stricter one: its count is never
\* below the count the local variant gives the same check, so a check the
\* local variant denies is denied by the shared variant too.
C26_SharedStricter ==
  (LatestCheck("redis") /\ SameGate) =>
    /\ resp.count >= LocalCount
    /\ OverLimit(LocalCount, resp.gate.maxRequests) => ~resp.next

\* checks at 0, 500 and 1500 ms, limit 2, window 1500 ms: the shared
\* variant counts 3 and denies, the local variant would count 2 and admit
C26_Witness ==
  /\ LatestCheck("redis") /\ SameGate /\ ~resp.next
  /\ resp.count = 3 /\ LocalCount = 2
  /\ resp.gate.maxRequests = 2

(***************************************************************************)
(* Claims about requests in flight at once.                                 *)
(***************************************************************************)
Counted == {i \in DOMAIN conc : conc[i].phase \in {"answered", "done"}}
Admitted == {i \in DOMAIN conc : conc[i].phase = "done" /\ conc[i].next}

\* all requests are of one client and one gate, and all were counted less
\* than windowMs after the first
OneBurst ==
  /\ \A i, j \in DOMAIN conc :
       /\ conc[i].ip = conc[j].ip /\ conc[i].gate = conc[j].gate
       /\ i \in Counted /\ j \in Counted =>
            conc[i].at - conc[j].at < conc[i].gate.windowMs

\* C27: no update is lost: of n requests of one client in flight at once,
\* same limit and window, inside one window, starting without history, the
\* checks observe the n counts 1..n in some order, on both backends, so
\* min(n, limit) of them are admitted; and in any trailing windowMs at most
\* limit requests of the client are admitted.
C27_NoLostUpdate ==
  LET n == Len(conc)
  IN /\ OneBurst =>
          /\ \A i, j \in Counted : i # j => conc[i].count # conc[j].count
          /\ {conc[i].count : i \in Counted} = 1..Cardinality(Counted)
          /\ (n > 0 /\ \A i \in DOMAIN conc : conc[i].phase = "done") =>
               LET L == conc[1].gate.maxRequests
               IN Cardinality(Admitted) = IF n < L THEN n ELSE L
     /\ \A i \in Admitted :
            Cardinality({j \in Admitted :
                           /\ conc[j].at <= conc[i].at
                           /\ conc[i].at - conc[j].at < conc[i].gate.windowMs})
              <= conc[i].gate.maxRequests

\* shared backend, three requests in flight against a limit of 2: the
\* store ran the transaction of the first one last, so it is the one denied
C27_Witness ==
  /\ redisClient /\ OneBurst /\ Len(conc) = 3
  /\ \A i \in DOMAIN conc : conc[i].phase = "done"
  /\ conc[1].gate.maxRequests = 2
  /\ conc[1].count = 3 /\ ~conc[1].next
  /\ Cardinality(Admitted) = 2

(***************************************************************************)
(* sentrixMiddleware(options): the array of stages, mounted on a route      *)
(* before the route handler, with sentrixErrorHandler behind it.  A stage   *)
(* is its name; what a stage does to `next` is a sequence of effects: it    *)
(* calls next(), or it throws.  Express runs the stage behind the one that  *)
(* called next(), and the error handler once next(err) was called.          *)
(***************************************************************************)
\* an option of SentriXOptions: left out, or given
Flags == {"absent", "true", "false"}

\* destructuring with a default, then the truth test of the spread
Flag(option, fallback) == IF option = "absent" THEN fallback ELSE option = "true"

NoSentrixOptions ==
  [schema |-> "absent", requireAuth |-> "absent", requireCSRF |-> "absent",
   enableDoS |-> "absent", rateLimitOptions |-> NoOptions]

\* the gate of the model's routes: one request per second, 100 bytes
RouteGate == [maxRequests |-> 1, windowMs |-> 1000, maxPayloadSize |-> 100]

SentrixOptions ==
  {NoSentrixOptions} \cup
  [schema : {"absent", "given"}, requireAuth : {"true", "false"},
   requireCSRF : {"true", "false"}, enableDoS : {"true", "false"},
   rateLimitOptions : {RouteGate}]

MutMiddlewareAuthFirst(options) ==
  <<"sanitizeHeaders", "securityHeaders", "cspMiddleware">>
    \o (IF Flag(options.requireAuth, FALSE) THEN <<"jwtVerifier">> ELSE <<>>)
    \o (IF Flag(options.enableDoS, TRUE) THEN <<"antiDoS">> ELSE <<>>)
    \o (IF Flag(options.requireCSRF, FALSE) THEN <<"csrfProtection">> ELSE <<>>)
    \o (IF options.schema # "absent" THEN <<"validateRequest">> ELSE <<>>)
    \o <<"sanitizeInput">>

\* the array sentrixMiddleware(options) returns
sentrixMiddleware(options) ==
  <<"sanitizeHeaders", "securityHeaders", "cspMiddleware">>
    \o (IF Flag(options.enableDoS, TRUE) THEN <<"antiDoS">> ELSE <<>>)
    \o (IF Flag(options.requireAuth, FALSE) THEN <<"jwtVerifier">> ELSE <<>>)
    \o (IF Flag(options.requireCSRF, FALSE) THEN <<"csrfProtection">> ELSE <<>>)
    \o (IF options.schema # "absent" THEN <<"validateRequest">> ELSE <<>>)
    \o <<"sanitizeInput">>

CallsNext == [kind |-> "next", error |-> NoError]
Throws(error) == [kind |-> "throw", error |-> error]

\* the Authorization headers of the model and authHeader.split(" ")
AuthHeaders ==
  {NoHeader, "Basic dXNlcg==", "bearer good", "Bearer good extra",
   "Bearer good", "Bearer expired", "Bearer forged", "Bearer early"}

AuthParts(authHeader) ==
  CASE authHeader = "Basic dXNlcg=="    -> <<"Basic", "dXNlcg==">>
    [] authHeader = "bearer good"       -> <<"bearer", "good">>
    [] authHeader = "Bearer good extra" -> <<"Bearer", "good", "extra">>
    [] authHeader = "Bearer good"       -> <<"Bearer", "good">>
    [] authHeader = "Bearer expired"    -> <<"Bearer", "expired">>
    [] authHeader = "Bearer forged"     -> <<"Bearer", "forged">>
    [] authHeader = "Bearer early"      -> <<"Bearer", "early">>
    [] OTHER                            -> <<authHeader>>

\* jwt.verify(token, secret): "ok", or the name of the error it throws
JwtVerify(token) ==
  CASE token = "good"    -> "ok"
    [] token = "expired" -> "TokenExpiredError"
    [] token = "early"   -> "NotBeforeError"
    [] OTHER             -> "JsonWebTokenError"

MutJwtNextThenThrow(authHeader) ==
  IF authHeader = NoHeader THEN <<Throws(AuthenticationError)>>
  ELSE IF Len(AuthParts(authHeader)) # 2 \/ AuthParts(authHeader)[1] # "Bearer"
    THEN <<Throws(AuthenticationError)>>
  ELSE <<CallsNext, Throws(AuthenticationError)>>

\* jwtVerifier: every failure is an AuthenticationError
jwtVerifier(authHeader) ==
  IF authHeader = NoHeader THEN <<Throws(AuthenticationError)>>
  ELSE IF Len(AuthParts(authHeader)) # 2 \/ AuthParts(authHeader)[1] # "Bearer"
    THEN <<Throws(AuthenticationError)>>
  ELSE IF JwtVerify(AuthParts(authHeader)[2]) = "ok" THEN <<CallsNext>>
  ELSE <<Throws(AuthenticationError)>>

\* schema.parse({body, query, params}): it returns, throws a ZodError, or
\* throws something else (a refinement of the schema that throws)
ParseOutcomes == {"ok", "ZodError", "Error"}

validateRequest(parsed) ==
  CASE parsed = "ok"       -> <<CallsNext>>
    [] parsed = "ZodError" -> <<Throws(ValidationError)>>
    [] OTHER               -> <<Throws(OtherError)>>

\* the stages that only set headers or rewrite the request, then call next()
HeaderStage(stage) ==
  CASE stage = "sanitizeHeaders" ->
         {"X-Content-Type-Options", "X-Frame-Options", "Referrer-Policy"}
    [] stage = "securityHeaders" ->
         {"Strict-Transport-Security", "X-XSS-Protection", "X-Content-Type-Options",
          "X-Frame-Options", "Referrer-Policy"}
    [] stage = "cspMiddleware" -> {"Content-Security-Policy"}
    [] OTHER -> {}

\* asyncHandler(fn), and Express around a plain stage: a call of next() is
\* next(); what fn throws, or rejects with, is handed to next(err)
asyncHandler(effects) ==
  [i \in DOMAIN effects |->
     IF effects[i].kind = "next" THEN [call |-> "next", err |-> NoError]
     ELSE [call |-> "error", err |-> effects[i].error]]

\* A request as Express hands it to a stage: req.ip, the address of the
\* socket, and the two proxy headers the client may have sent.
PlainRequest(ip) ==
  [ip |-> ip, remoteAddress |-> ip, forwardedFor |-> NoHeader, realIp |-> NoHeader]

ForwardedValues == {NoHeader, "", "ip2", "ip2, ip1", " , ip1"}

Requests ==
  [ip : {"ip1", NoIp}, remoteAddress : {"ip1", NoIp},
   forwardedFor : ForwardedValues, realIp : {NoHeader, "ip2"}]

\* forwarded.split(",").map((ip) => ip.trim())[0]
FirstForwarded(forwarded) ==
  CASE forwarded = "ip2"      -> "ip2"
    [] forwarded = "ip2, ip1" -> "ip2"
    [] OTHER                  -> ""

\* sanitizeHeaders: the two deletes
sanitizeHeaders(trustProxy, req) ==
  IF ~trustProxy
    THEN [req EXCEPT !.forwardedFor = NoHeader, !.realIp = NoHeader]
    ELSE req

MutExtractForwarded(trustProxy, req) ==
  IF req.forwardedFor \notin {NoHeader, ""} /\ FirstForwarded(req.forwardedFor) # ""
    THEN FirstForwarded(req.forwardedFor)
  ELSE IF req.ip # NoIp THEN req.ip
  ELSE req.remoteAddress

\* extractClientIP(req); NoIp is null
extractClientIP(trustProxy, req) ==
  IF /\ trustProxy
     /\ req.forwardedFor \notin {NoHeader, ""}
     /\ FirstForwarded(req.forwardedFor) # ""
    THEN FirstForwarded(req.forwardedFor)
  ELSE IF trustProxy /\ req.realIp \notin {NoHeader, ""} THEN req.realIp
  ELSE IF req.ip # NoIp THEN req.ip
  ELSE req.remoteAddress

PipeIdle(options) ==
  [options |-> options, stack |-> sentrixMiddleware(options), pos |-> 0,
   headers |-> {}, log |-> <<>>, route |-> FALSE, err |-> NoError,
   status |-> 0, n |-> 0, trustProxy |-> FALSE,
   req |-> PlainRequest(NoIp), received |-> PlainRequest(NoIp),
   previous |-> PlainRequest(NoIp)]

PipeInit(optionSet) == pipe \in {PipeIdle(options) : options \in optionSet}

PipeFree == pipe.pos = 0 \/ pipe.status # 0

\* a request enters the route
PipeRequest(req) ==
  /\ PipeFree
  /\ pipe.n < MaxPipeReqs
  /\ pipe' = [pipe EXCEPT !.pos = 1, !.headers = {}, !.log = <<>>, !.route = FALSE,
                          !.err = NoError, !.status = 0, !.n = @ + 1,
                          !.req = req, !.received = req, !.previous = pipe.received]
  /\ UNCHANGED <<concVars, httpVars, appVars, lruVars, clockVars, rlVars, csrfVars>>

AtStage(stage) ==
  /\ pipe.pos \in DOMAIN pipe.stack
  /\ pipe.stack[pipe.pos] = stage
  /\ pipe.err = NoError
  /\ pipe.status = 0

\* the router after a stage made these calls on next
Routed(stage, calls, headers) ==
  LET passed == \E i \in DOMAIN calls : calls[i].call = "next"
      raised == {i \in DOMAIN calls : calls[i].call = "error"}
  IN [pipe EXCEPT !.log = Append(@, [stage |-> stage, calls |-> calls]),
                  !.headers = @ \cup headers,
                  !.pos = IF passed THEN @ + 1 ELSE @,
                  !.err = IF raised = {} THEN NoError
                          ELSE calls[CHOOSE i \in raised : \A j \in raised : i <= j].err]

\* sanitizeHeaders, securityHeaders, cspMiddleware and the closing stage
\* that sanitises body, query and params
StagePlain(stage) ==
  /\ AtStage(stage)
  /\ pipe' = [Routed(stage, asyncHandler(<<CallsNext>>), HeaderStage(stage))
                EXCEPT !.req = IF stage = "sanitizeHeaders"
                                 THEN sanitizeHeaders(pipe.trustProxy, @) ELSE @]
  /\ UNCHANGED <<concVars, httpVars, appVars, lruVars, clockVars, rlVars, csrfVars>>

\* antiDoS({...rateLimitOptions || config})
StageAntiDoS(contentLength) ==
  /\ AtStage("antiDoS")
  /\ antiDoSHandler(sentrixRateLimitOptions(pipe.options.rateLimitOptions),
                    extractClientIP(pipe.trustProxy, pipe.req), contentLength, "ok")
  /\ pipe' = Routed("antiDoS",
                    asyncHandler(IF resp'.next THEN <<CallsNext>>
                                 ELSE <<Throws(resp'.error)>>),
                    IF resp'.next THEN {"X-RateLimit-Limit", "X-RateLimit-Window"}
                    ELSE IF resp'.retryAfter > 0 THEN {"Retry-After"} ELSE {})

StageJwt(authHeader) ==
  /\ AtStage("jwtVerifier")
  /\ pipe' = Routed("jwtVerifier", asyncHandler(jwtVerifier(authHeader)), {})
  /\ UNCHANGED <<concVars, httpVars, appVars, lruVars, clockVars, rlVars, csrfVars>>

StageCsrf(method, cookie, submittedToken) ==
  LET stored == IF cookie = NoCookie THEN NoToken
                ELSE getTokenMemory(memoryTokens, cookie, now)
      verdict == csrfCheck(method, cookie, submittedToken, stored, FALSE)
  IN /\ AtStage("csrfProtection")
     /\ pipe' = Routed("csrfProtection",
                       asyncHandler(IF verdict.next THEN <<CallsNext>>
                                    ELSE <<Throws(verdict.error)>>), {})
     /\ UNCHANGED <<concVars, httpVars, appVars, lruVars, clockVars, rlVars, csrfVars>>

StageValidate(parsed) ==
  /\ AtStage("validateRequest")
  /\ pipe' = Routed("validateRequest", asyncHandler(validateRequest(parsed)), {})
  /\ UNCHANGED <<concVars, httpVars, appVars, lruVars, clockVars, rlVars, csrfVars>>

\* the route handler behind the array answers
RouteHandler ==
  /\ pipe.pos = Len(pipe.stack) + 1
  /\ pipe.status = 0
  /\ pipe' = [pipe EXCEPT !.route = TRUE,
                          !.status = IF pipe.err = NoError THEN 200 ELSE @]
  /\ UNCHANGED <<concVars, httpVars, appVars, lruVars, clockVars, rlVars, csrfVars>>

\* sentrixErrorHandler answers the error handed to next
RouteError ==
  /\ pipe.err # NoError
  /\ pipe.status = 0
  /\ pipe' = [pipe EXCEPT !.status =
                sentrixErrorHandler(pipe.err, GenericMessage, env).status]
  /\ UNCHANGED <<concVars, httpVars, appVars, lruVars, clockVars, rlVars, csrfVars>>

\* the count the store holds for a client, and the part of it a check
\* through a gate of window windowMs finds still alive
ClientCount(ip) ==
  IF redisClient
    THEN redisDos[ip].count
    ELSE IF MapHas(memoryClients, ip) THEN Len(MapGet(memoryClients, ip).attempts) ELSE 0

LiveCount(ip, windowMs) ==
  IF redisClient
    THEN IF RedisLive(redisDos[ip], now) THEN redisDos[ip].count ELSE 0
    ELSE IF MapHas(memoryClients, ip)
           THEN Len(FilterAttempts(MapGet(memoryClients, ip).attempts, now, windowMs))
           ELSE 0

\* C28: every request that reaches the rate-limit step adds exactly one to
\* its client's count, whether it is then admitted, denied, or abandoned
\* after the mutation; the mutation is never rolled back, so denied and
\* abandoned requests count against the quota of later requests.
C28_CountedOnce ==
  [][ /\ \A i \in Counted' \ Counted : \A ip \in Ips, gate \in Gates :
           (conc'[i].ip = ip /\ conc'[i].gate = gate) =>
              /\ ClientCount(ip)' = LiveCount(ip, gate.windowMs) + 1
              /\ conc'[i].count = ClientCount(ip)'
              /\ conc'[i].count >=
                   1 + Cardinality({j \in Counted :
                                      /\ conc[j].ip = ip
                                      /\ now - conc[j].at < gate.windowMs})
      /\ (Counted' = Counted /\ now' = now) =>
           /\ redisDos' = redisDos
           /\ memoryClients' = memoryClients
      /\ \A i \in Counted : i \in Counted' /\ conc'[i].count = conc[i].count
    ]_vars

\* limit 1: the second request was counted 2 and denied, the third was
\* abandoned by its client after the store had counted it 3, and its
\* handler went on to deny it
C28_Witness ==
  /\ Len(conc) = 3 /\ conc[1].gate.maxRequests = 1
  /\ \A i \in DOMAIN conc : conc[i].phase = "done"
  /\ conc[2].count = 2 /\ ~conc[2].next
  /\ conc[3].count = 3 /\ conc[3].aborted /\ ~conc[3].next
  /\ ClientCount(conc[3].ip) = 3

\* C29: a process that started with the shared backend never serves a
\* rate-limit check or a CSRF token store/lookup from local memory
\* afterwards: the backend variant in use stays the same over any sequence
\* of requests, backend failures and cleanup calls.
C29_BackendFixed ==
  [][ /\ resp.backend = "redis" => resp'.backend # "memory"
      /\ csrfRedis => csrfRedis'
    ]_vars

\* the stages a request has to pass, in the order of the array
StageOrder ==
  <<"sanitizeHeaders", "securityHeaders", "cspMiddleware", "antiDoS",
    "jwtVerifier", "csrfProtection", "validateRequest", "sanitizeInput">>

StageEnabled(options, stage) ==
  CASE stage = "antiDoS"         -> options.enableDoS \in {"absent", "true"}
    [] stage = "jwtVerifier"     -> options.requireAuth = "true"
    [] stage = "csrfProtection"  -> options.requireCSRF = "true"
    [] stage = "validateRequest" -> options.schema = "given"
    [] OTHER                     -> TRUE

StagesRun == [i \in DOMAIN pipe.log |-> pipe.log[i].stage]
StagePassed(i) == pipe.log[i].calls = <<[call |-> "next", err |-> NoError]>>

\* C30: sentrixMiddleware runs its stages in the fixed order header
\* sanitisation, security headers, CSP, admission gate (if enableDoS), JWT
\* verification (if requireAuth), CSRF validation (if requireCSRF), schema
\* validation (if schema), input sanitisation; a stage runs only if every
\* earlier stage passed, the route handler runs only when all enabled stages
\* passed, and each stage calls the next stage or raises an error, never both.
C30_StageOrder ==
  LET enabled == SelectSeq(StageOrder, LAMBDA stage : StageEnabled(pipe.options, stage))
      ran == Len(pipe.log)
  IN /\ ran <= Len(enabled)
     /\ StagesRun = SubSeq(enabled, 1, ran)
     /\ \A i \in DOMAIN pipe.log :
          /\ Len(pipe.log[i].calls) = 1
          /\ i < ran => StagePassed(i)
     /\ pipe.route =>
          /\ ran = Len(enabled)
          /\ \A i \in DOMAIN pipe.log : StagePassed(i)
     /\ pipe.err # NoError => ~pipe.route /\ ~StagePassed(ran)

\* every stage enabled, the second request of the client: refused by the
\* gate, so none of the four stages behind it ran and the answer is 429
C30_Witness ==
  /\ Len(pipe.stack) = 8 /\ pipe.n = 2
  /\ StagesRun = SubSeq(StageOrder, 1, 4)
  /\ pipe.err = RateLimitError /\ pipe.status = 429 /\ ~pipe.route

\* the latest token issued to a session, and when its TTL is over
LatestIssued(sid) == issued[sid].tokens[Len(issued[sid].tokens)]
TtlOver(sid) ==
  /\ memoryTokens[sid] # NoEntry
  /\ memoryTokens[sid].expiresAt < now

\* C31: local token store: while the sweep timer is active, every entry
\* whose TTL has elapsed is eventually removed from the map by a later
\* sweep, so the map does not keep expired entries for ever; and the sweep
\* never removes an entry whose TTL has not elapsed.
C31_SweepPurges ==
  /\ \A sid \in Sessions :
       (cleanupInterval /\ TtlOver(sid)) ~> (~cleanupInterval \/ ~TtlOver(sid))
  /\ [][Sweep =>
          \A sid \in Sessions :
            (memoryTokens[sid] # NoEntry /\ memoryTokens'[sid] = NoEntry)
              => memoryTokens[sid].expiresAt < now]_vars

\* a session's token was issued, its TTL went by, and a sweep (no cleanup
\* call) took the entry out of the map while the timer is active
C31_Witness ==
  \E sid \in Sessions :
    /\ cleanupInterval /\ ~csrfRedis
    /\ issued[sid].tokens # <<>> /\ ~issued[sid].cleared
    /\ LatestIssued(sid).at + TOKEN_EXPIRY * 1000 < now
    /\ memoryTokens[sid] = NoEntry

\* all timestamps of a client's window are older than windowMs
AgedOut(client, at, windowMs) ==
  \A i \in DOMAIN client.attempts : at - client.attempts[i] >= windowMs

\* C32: local rate-limit cache: a client's window entry is destroyed by
\* natural expiry: once all its timestamps have aged out and the client
\* shows no new activity, the periodic cleanup removes the entry from the
\* cache; LRU eviction is not the only way out.  So after a request that ran
\* the periodic cleanup, an entry that was aged out is gone, or is a new
\* entry made by that very request.
C32_NaturalExpiry ==
  [][lastCleanup' # lastCleanup =>
       \A ip \in Ips :
         (MapHas(memoryClients, ip)
            /\ AgedOut(MapGet(memoryClients, ip), now, resp'.gate.windowMs))
           => \/ ~MapHas(memoryClients', ip)
              \/ MapGet(memoryClients', ip).firstSeen = now]_vars

\* C33: SafeHttpClient.fetchWithRetry always terminates: it makes at most
\* retries+1 attempts, returns the response of the first attempt that does
\* not throw without making further attempts, waits 1000*2^attempt ms after
\* failed attempt number attempt (0-based) before the next one, and after
\* the last failed attempt throws an error without waiting again.
C33_RetryTerminates ==
  /\ (hcall.phase \in {"attempt", "backoff"}) ~> (hcall.phase = "done")
  /\ [](/\ hcall.fetches <= hc.retries + 1
        /\ \A i \in DOMAIN hcall.waits : hcall.waits[i] = 1000 * 2^(i - 1)
        /\ hcall.phase = "attempt" =>
             hcall.fetches = hcall.attempt /\ Len(hcall.waits) = hcall.attempt
        /\ hcall.phase = "backoff" =>
             /\ hcall.fetches = hcall.attempt + 1
             /\ Len(hcall.waits) = hcall.attempt + 1
             /\ hcall.attempt < hc.retries
        /\ hcall.result = "response" =>
             /\ hcall.phase = "done"
             /\ hcall.fetches = hcall.attempt + 1
             /\ Len(hcall.waits) = hcall.attempt
        /\ hcall.result = "failed" =>
             /\ hcall.phase = "done"
             /\ hcall.fetches = hc.retries + 1
             /\ Len(hcall.waits) = hc.retries)

\* three retries, every attempt failed: four fetches, waits of 1, 2 and 4
\* seconds, then the error
C33_Witness ==
  /\ hc.retries = 3 /\ hcall.phase = "done" /\ hcall.result = "failed"
  /\ hcall.fetches = 4 /\ hcall.waits = <<1000, 2000, 4000>>

\* the counter the shared variant would hold after the first n checks of a
\* history h, all under windowMs
RECURSIVE SharedEntry(_, _, _)
SharedEntry(h, n, windowMs) ==
  IF n = 0 THEN [count |-> 0, expireAt |-> 0]
  ELSE RedisIncrExpire(SharedEntry(h, n - 1, windowMs), h[n], windowMs)

SharedCount ==
  SharedEntry(rlHist[resp.ip], Len(rlHist[resp.ip]), resp.gate.windowMs).count

\* every check of the history came less than windowMs after the first
InFirstWindow(h, windowMs) == \A i \in DOMAIN h : h[i] - h[1] < windowMs

\* C34: backend parity inside one window: for any sequence of checks by one
\* client, starting from no state, in which every check is made less than
\* windowMs after that client's first check, the local and the shared
\* variant return the same admit/deny decision and the same count for every
\* check.
C34_BackendParity ==
  LET h == rlHist[resp.ip]
  IN (/\ LatestCheck("memory") \/ LatestCheck("redis")
      /\ SameGate /\ OnlyClient(resp.ip)
      /\ InFirstWindow(h, resp.gate.windowMs)) =>
       /\ LocalCount = SharedCount
       /\ resp.count = LocalCount
       /\ resp.next <=> ~OverLimit(SharedCount, resp.gate.maxRequests)
       /\ resp.next <=> ~OverLimit(LocalCount, resp.gate.maxRequests)

\* limit 2, window 1500 ms, checks at 0, 500 and 1000 ms on the local
\* variant: the third is counted 3 and denied, as the shared variant would
C34_Witness ==
  /\ LatestCheck("memory") /\ SameGate /\ OnlyClient(resp.ip)
  /\ resp.gate.windowMs = 1500 /\ resp.gate.maxRequests = 2
  /\ rlHist[resp.ip] = <<0, 500, 1000>>
  /\ resp.count = 3 /\ SharedCount = 3 /\ ~resp.next

\* the timestamps the cache holds for a client, whichever gates stored them
StoredAttempts(cache, ip) ==
  IF MapHas(cache, ip) THEN MapGet(cache, ip).attempts ELSE <<>>

\* C35: the local rate-limit store is one process-wide cache keyed by client
\* IP only: checks through antiDoS instances with different limit or
\* windowMs read and mutate the same per-client timestamp list, so a request
\* through one instance changes the count another instance sees for that
\* client, and a check under a shorter windowMs removes timestamps that an
\* instance with a longer windowMs would still count.
C35_SharedList ==
  [][(/\ rlReqs' = rlReqs + 1
      /\ resp'.backend = "memory"
      /\ resp'.step \in {"limit", "pass"}) =>
       \A ip \in Ips : \A gate \in Gates :
         (resp'.ip = ip /\ resp'.gate = gate) =>
           LET old == StoredAttempts(memoryClients, ip)
               kept == {i \in DOMAIN old : now - old[i] < gate.windowMs}
           IN /\ resp'.count = Cardinality(kept) + 1
              /\ StoredAttempts(memoryClients, ip)' =
                   Append(SelectSeq(old, LAMBDA t : now - t < gate.windowMs), now)
              /\ \A longer \in Gates : \A i \in DOMAIN old :
                   (now - old[i] >= gate.windowMs /\ now - old[i] < longer.windowMs)
                     => \A j \in DOMAIN StoredAttempts(memoryClients, ip)' :
                          StoredAttempts(memoryClients, ip)'[j] # old[i]
    ]_vars

\* a check at 0 under the 1500 ms window, one at 1000 under the 1000 ms
\* window that drops the first timestamp, then one under the 1500 ms window
\* again: it counts the other gate's check, 2 in all, where three checks of
\* the client lie in its own trailing window
C35_Witness ==
  /\ LatestCheck("memory") /\ OnlyClient(resp.ip)
  /\ Cardinality(rlNote[resp.ip].gates) = 2
  /\ resp.gate.windowMs = 1500
  /\ rlHist[resp.ip] = <<0, 1000, 1000>>
  /\ resp.count = 2 /\ TrailingChecks = 3

\* the map as it would be had no sweep ever run: the latest token issued to
\* each session since the last cleanupCsrf()
Unswept ==
  [sid \in Sessions |->
     IF issued[sid].tokens = <<>> \/ issued[sid].cleared THEN NoEntry
     ELSE [token     |-> LatestIssued(sid).token,
           expiresAt |-> LatestIssued(sid).at + TOKEN_EXPIRY * 1000]]

\* C36: the background sweep of the local token store is unobservable: for
\* every sequence of issue, validate and time-advance steps, the result of
\* every lookup and validation is the same whether sweeps run at any points
\* in the sequence or never run.
C36_SweepUnobservable ==
  ~csrfRedis =>
    /\ \A sid \in Sessions :
         getTokenMemory(memoryTokens, sid, now) = getTokenMemory(Unswept, sid, now)
    /\ cresp.kind = "validate" =>
         LET stored == IF cresp.cookie = NoCookie THEN NoToken
                       ELSE getTokenMemory(Unswept, cresp.cookie, now)
             verdict == csrfCheck(cresp.method, cresp.cookie, cresp.token, stored, FALSE)
         IN /\ cresp.step = verdict.step
            /\ cresp.error = verdict.error
            /\ cresp.next = verdict.next

\* the token of the session expired and a sweep took its entry out of the
\* map; the validation that follows answers "not found", as it would with
\* the expired entry still in the map
C36_Witness ==
  /\ ~csrfRedis /\ cleanupInterval
  /\ cresp.kind = "validate" /\ cresp.step = "notfound"
  /\ cresp.cookie \in Sessions
  /\ memoryTokens[cresp.cookie] = NoEntry
  /\ Unswept[cresp.cookie] # NoEntry

\* the entry the configured store holds for a session
StoredEntry(sessionId) ==
  IF csrfRedis THEN redisTokens[sessionId] ELSE memoryTokens[sessionId]

\* C38: generateCsrfMiddleware stores the new token under the session id
\* before it exposes the token and before it calls the next stage, so a token
\* a client has received was already stored when it was sent; if storing
\* fails, no token is exposed, the next stage is not run and the error goes
\* to the error handler.
C38_StoredBeforeExposed ==
  [][(cresp = NoCsrfResponse /\ cresp'.kind = "issue") =>
       \A sid \in Sessions :
         cresp'.sessionId = sid =>
           /\ (cresp'.exposed \/ cresp'.next) =>
                /\ cresp'.exposed /\ cresp'.next /\ cresp'.error = NoError
                /\ cresp'.token # NoToken
                /\ StoredEntry(sid)' =
                     [token |-> cresp'.token, expiresAt |-> now + TOKEN_EXPIRY * 1000]
           /\ cresp'.step = "fault" =>
                /\ ~cresp'.exposed /\ ~cresp'.next /\ cresp'.token = NoToken
                /\ cresp'.error = OtherError
                /\ UNCHANGED <<memoryTokens, redisTokens>>
           /\ cresp'.step \in {"pass", "fault"}]_vars

\* a rejected SETEX on a session that already holds a token
C38_Witness ==
  /\ csrfRedis /\ cresp.kind = "issue" /\ cresp.step = "fault"
  /\ cresp.error = OtherError /\ ~cresp.exposed /\ ~cresp.next
  /\ redisTokens[cresp.sessionId] # NoEntry

\* two requests that differ at most in the two proxy headers
SameButProxyHeaders(r1, r2) ==
  r1.ip = r2.ip /\ r1.remoteAddress = r2.remoteAddress

GateRan == \E i \in DOMAIN pipe.log : pipe.log[i].stage = "antiDoS"

\* C37: when trustProxy is false, the client-supplied X-Forwarded-For and
\* X-Real-IP headers never influence the rate-limit key: two requests that
\* differ only in those headers resolve to the same client key and are
\* counted against the same counter.
C37_ProxyHeadersIgnored ==
  ~pipe.trustProxy =>
    /\ \A r1, r2 \in Requests :
         SameButProxyHeaders(r1, r2)
           => extractClientIP(FALSE, r1) = extractClientIP(FALSE, r2)
    /\ GateRan =>
         /\ resp.ip = IF pipe.received.ip # NoIp THEN pipe.received.ip
                                                 ELSE pipe.received.remoteAddress
         /\ (SameButProxyHeaders(pipe.received, pipe.previous)
               /\ resp.ip # NoIp /\ pipe.n = 2)
              => resp.count = 2
    /\ rlHist["ip2"] = <<>>
    /\ ~MapHas(memoryClients, "ip2")

\* the second request of the client carries X-Forwarded-For: ip2 and
\* X-Real-IP: ip2, the first carried neither: it is counted 2 under ip1
C37_Witness ==
  /\ ~pipe.trustProxy /\ GateRan /\ pipe.n = 2
  /\ pipe.previous = PlainRequest("ip1")
  /\ pipe.received = [ip |-> "ip1", remoteAddress |-> "ip1",
                      forwardedFor |-> "ip2", realIp |-> "ip2"]
  /\ resp.ip = "ip1" /\ resp.count = 2

Init ==
  LruInit(1..MaxCapacity) /\ RlInit /\ redisClient = FALSE
    /\ csrfRedis = FALSE /\ CsrfInit /\ PipeInit({NoSentrixOptions}) /\ HttpInit({NoDomains}, {0}) /\ env = "development"

InitRL ==
  LruInit({1}) /\ RlInit /\ redisClient \in BOOLEAN
    /\ csrfRedis = FALSE /\ CsrfInit /\ PipeInit({NoSentrixOptions}) /\ HttpInit({NoDomains}, {0}) /\ env = "development"

InitCsrf ==
  LruInit({1}) /\ RlInit /\ redisClient = FALSE
    /\ csrfRedis \in BOOLEAN /\ CsrfInit /\ PipeInit({NoSentrixOptions}) /\ HttpInit({NoDomains}, {0}) /\ env = "development"

NextLRU ==
  \/ \E key \in LruKeys, value \in LruVals : LruSet(key, value)
  \/ \E key \in LruKeys : LruGet(key)
  \/ \E key \in LruKeys : LruDelete(key)
  \/ LruClear

SpecLRU == Init /\ [][NextLRU]_vars

NextRL ==
  \/ \E options \in GateOptions, ip \in Ips \cup {NoIp},
        contentLength \in ContentLengths,
        outcome \in IF redisClient THEN RedisOutcomes ELSE {"ok"} :
          AntiDoS(options, ip, contentLength, outcome)
  \/ CleanupAntiDoS
  \/ AdvanceTime(Deltas)

SpecRL == InitRL /\ [][NextRL]_vars

NextCsrf ==
  \/ \E cookie \in Cookies, storeFails \in {FALSE, csrfRedis} :
        GenerateCsrf(cookie, storeFails)
  \/ \E method \in Methods, cookie \in Cookies, submittedToken \in Submitted,
        lookupFails \in {FALSE, csrfRedis} :
          CsrfProtection(method, cookie, submittedToken, lookupFails)
  \/ ResponseSent
  \/ Sweep
  \/ CleanupCsrf
  \/ AdvanceTime(TokenDeltas)

SpecCsrf == InitCsrf /\ [][NextCsrf]_vars

\* tokens are issued, time goes by, and the timer fires again and again
\* while it is set
NextSweep ==
  \/ \E cookie \in Cookies : GenerateCsrf(cookie, FALSE)
  \/ ResponseSent
  \/ Sweep
  \/ CleanupCsrf
  \/ AdvanceTime(TokenDeltas)

SpecSweep == InitCsrf /\ [][NextSweep]_vars /\ WF_vars(Sweep)

InitApp ==
  LruInit({1}) /\ RlInit /\ redisClient = FALSE
    /\ csrfRedis = FALSE /\ CsrfInit /\ PipeInit({NoSentrixOptions}) /\ HttpInit({NoDomains}, {0}) /\ env \in Envs

NextApp ==
  \/ SentrixRequest(NoOptions, "ip1")
  \/ \E err \in LaterErrors, message \in Messages :
        SentrixErrorHandler(err, message)
  \/ ClientWaits

SpecApp == InitApp /\ [][NextApp]_vars

InitHttp ==
  LruInit({1}) /\ RlInit /\ redisClient = FALSE
    /\ csrfRedis = FALSE /\ CsrfInit /\ PipeInit({NoSentrixOptions}) /\ env = "development"
    /\ HttpInit(DomainOptions, RetryOptions)

NextHttp ==
  \/ \E url \in Urls : FetchWithRetry(url)
  \/ \E outcome \in {"response", "throws"} : FetchAttempt(outcome)
  \/ BackoffOver

SpecHttp == InitHttp /\ [][NextHttp]_vars

\* every fetch settles (it answers, fails, or is aborted after timeoutMs)
\* and every backoff timer fires
SpecRetry ==
  InitHttp /\ [][NextHttp]_vars
    /\ WF_vars(\E outcome \in {"response", "throws"} : FetchAttempt(outcome))
    /\ WF_vars(BackoffOver)

NextConc ==
  \/ \E options \in GateOptions : ConcArrive(options, "ip1")
  \/ \E i \in DOMAIN conc : ConcExec(i)
  \/ \E i \in DOMAIN conc : ConcResume(i)
  \/ AdvanceTime(Deltas)

SpecConc == InitRL /\ [][NextConc]_vars

\* One process on one connection to the store: the store runs the
\* transactions in the order they were sent, the handlers go on in the
\* order of the answers, and a client may go away meanwhile.
Earlier(i, phase) == \E j \in 1..(i - 1) : conc[j].phase = phase

NextAbort ==
  \/ \E options \in GateOptions : ConcArrive(options, "ip1")
  \/ \E i \in DOMAIN conc : ~Earlier(i, "sent") /\ ConcExec(i)
  \/ \E i \in DOMAIN conc : ~Earlier(i, "answered") /\ ConcResume(i)
  \/ \E i \in DOMAIN conc : ConcAbort(i)
  \/ AdvanceTime(Deltas)

SpecAbort == InitRL /\ [][NextAbort]_vars

InitPipe ==
  LruInit({1}) /\ RlInit /\ redisClient = FALSE
    /\ csrfRedis = FALSE /\ CsrfInit /\ HttpInit({NoDomains}, {0}) /\ env = "production"
    /\ PipeInit(SentrixOptions)

NextPipe ==
  \/ \E ip \in {"ip1", NoIp} : PipeRequest(PlainRequest(ip))
  \/ \E stage \in {"sanitizeHeaders", "securityHeaders", "cspMiddleware",
                    "sanitizeInput"} : StagePlain(stage)
  \/ \E contentLength \in {NoHeader, "101"} : StageAntiDoS(contentLength)
  \/ \E authHeader \in AuthHeaders : StageJwt(authHeader)
  \/ \E method \in {"GET", "POST"}, cookie \in Cookies, submittedToken \in Submitted :
        StageCsrf(method, cookie, submittedToken)
  \/ \E parsed \in ParseOutcomes : StageValidate(parsed)
  \/ RouteHandler
  \/ RouteError
  \/ \E cookie \in Cookies : PipeFree /\ GenerateCsrf(cookie, FALSE)
  \/ ResponseSent

SpecPipe == InitPipe /\ [][NextPipe]_vars

\* the requests one client sends from the address ip1, with and without
\* proxy headers of its own, and two requests Express gives no req.ip for
ProxyRequests ==
  {req \in Requests :
     \/ req.ip = "ip1" /\ req.remoteAddress = "ip1" /\ req.forwardedFor # ""
     \/ req.ip = NoIp /\ req.forwardedFor = "" /\ req.realIp = NoHeader}

\* the default array, with config.trustProxy either way
InitProxy ==
  LruInit({1}) /\ RlInit /\ redisClient = FALSE
    /\ csrfRedis = FALSE /\ CsrfInit /\ HttpInit({NoDomains}, {0}) /\ env = "production"
    /\ pipe \in {[PipeIdle(NoSentrixOptions) EXCEPT !.trustProxy = trustProxy] :
                   trustProxy \in BOOLEAN}

NextProxy ==
  \/ \E req \in ProxyRequests : PipeRequest(req)
  \/ \E stage \in {"sanitizeHeaders", "securityHeaders", "cspMiddleware",
                    "sanitizeInput"} : StagePlain(stage)
  \/ StageAntiDoS(NoHeader)
  \/ RouteHandler
  \/ RouteError

SpecProxy == InitProxy /\ [][NextProxy]_vars

====
